---- MODULE Spec2Model ----
(***************************************************************************)
(* Verification model of the submission-analysis core of Autograder4Canvas *)
(* (src/src/Programs/Academic_Dishonesty_Check_v1-3.py) and of the grading *)
(* loop of src/src/Programs/Autograder_Complete-Incomplete_v1-3.py.        *)
(*                                                                         *)
(* Texts are TLA+ strings, i.e. sequences of characters; Python's None is  *)
(* the value None below, which no text of the model equals.  Every Python  *)
(* float the model needs is a quotient of two lengths and is kept as the   *)
(* exact fraction [num, den].                                              *)
(***************************************************************************)
EXTENDS Integers, Sequences, FiniteSets, TLC

VARIABLES
    pc,               \* "start", "call" (arguments chosen) or the name of the operation that returned last
    CURRENT_PROFILE,  \* the module global CURRENT_PROFILE
    text1, text2,     \* arguments of calculate_text_similarity
    similarity,       \* its return value
    profile_key,      \* argument of get_profile
    returned_profile, \* its return value
    check_name,       \* argument of is_check_enabled
    check_enabled,    \* its return value
    all_submissions,  \* the sibling pool handed to analyze_submission
    submission,       \* the submission under analysis
    found,            \* what the regular-expression checks find in its text
    flags,            \* the list analyze_submission returns
    raised,           \* the exception it raised instead, or None
    draft1, draft2,   \* arguments of compare_drafts
    comparison,       \* its return value
    all_data,         \* argument of check_cross_assignment_similarity: assignment_id -> data, in insertion order
    cross_result,     \* its return value, with the comparisons its second loop made
    course_assignments, \* main's assignments, each with the submissions Canvas holds for it
    discussion_topics,\* main's discussion topics, each with the entries Canvas holds for it
    discussion_data,  \* main's discussion_data: topic_id -> data, in insertion order
    csv_rows,         \* the rows generate_report wrote to the CSV file
    enrollments,      \* the grader's active student enrollments
    fetched_submissions, \* the grader's get_submissions result: user_id -> submission, in insertion order
    regrade_mode,     \* the grading mode chosen in the grader's main
    grade_data,       \* the grade_data grade_assignment built; it is posted when it is not empty
    flagged_submissions, \* the list grade_assignment returns
    apa_citations,    \* the (author, year) pairs the citation patterns find in a text
    text_facts,       \* what the other patterns of check_bibliographic_markers find in it
    verify_citations, \* the argument verify_citations (the global VERIFY_CITATIONS)
    lookups,          \* what CrossRef and OpenLibrary answer to the k-th citation looked up
    batch_citations,  \* argument of verify_citations_batch
    batch_result,     \* its return value
    bib_result,       \* return value of check_bibliographic_markers
    edge_text1, edge_text2, \* the text handed to a check, or the two drafts handed to compare_drafts
    divisors,         \* the numbers the call divided by
    edge_value,       \* its return value
    job_state,        \* the workflow state of the grading job Canvas runs for the posted grades
    polls,            \* the number of times the polling loop of grade_assignment has slept, counted up to MaxPolls and from 1 again
    poll_reply        \* what the last request of grade_assignment was answered with

simVars == <<text1, text2, similarity>>
profileVars == <<profile_key, returned_profile, check_name, check_enabled>>
analysisVars == <<all_submissions, submission, found, flags, raised>>
draftVars == <<draft1, draft2, comparison>>
crossVars == <<all_data, cross_result>>
reportVars == <<course_assignments, discussion_topics, discussion_data, csv_rows>>
gradeVars == <<enrollments, fetched_submissions, regrade_mode, grade_data, flagged_submissions>>
biblioVars == <<apa_citations, text_facts, verify_citations, lookups, batch_citations,
                batch_result, bib_result>>

numericVars == <<edge_text1, edge_text2, divisors, edge_value>>
pollVars == <<job_state, polls, poll_reply>>

vars == <<pc, CURRENT_PROFILE, simVars, profileVars, analysisVars, draftVars, crossVars, reportVars, gradeVars, biblioVars, numericVars, pollVars>>

-----------------------------------------------------------------------------
(* Bounds *)

\* longest text enumerated character by character
MaxLen == 3

\* largest sibling pool
MaxPool == 3

-----------------------------------------------------------------------------
(* Python values *)

None == "<None>"

\* Python truthiness of an Optional[str]
Truthy(t) == t # None /\ t # ""

\* x is None, for an x that may be a number, a dict or a list as well as a text
IsNone(x) == ToString(x) = ToString(None)

\* exact fractions standing for floats
Rat(n, d) == [num |-> n, den |-> d]
RatEq(p, q) == p.num * q.den = q.num * p.den
RatGE(p, q) == p.num * q.den >= q.num * p.den
RatGT(p, q) == p.num * q.den > q.num * p.den

\* dict.get(key, default); a dict is a function, {} the empty one
EmptyDict == <<>>
DictGet(d, key, default) == IF key \in DOMAIN d THEN d[key] ELSE default

-----------------------------------------------------------------------------
(* str methods *)

CharAt(s, i) == SubSeq(s, i, i)

UPPER == "ABCDEFGHIJKLMNOPQRSTUVWXYZ"
LOWER == "abcdefghijklmnopqrstuvwxyz"

IsUpper(c) == \E i \in 1..Len(UPPER) : CharAt(UPPER, i) = c

LowerChar(c) ==
    IF IsUpper(c)
    THEN CharAt(LOWER, CHOOSE i \in 1..Len(UPPER) : CharAt(UPPER, i) = c)
    ELSE c

\* str.lower(), character by character (the text is halved to keep the nesting shallow)
RECURSIVE Lower(_)
Lower(s) ==
    IF s = "" THEN ""
    ELSE IF Len(s) = 1 THEN LowerChar(s)
    ELSE Lower(SubSeq(s, 1, Len(s) \div 2)) \o Lower(SubSeq(s, Len(s) \div 2 + 1, Len(s)))

\* the characters str.split() and str.strip() treat as whitespace
Whitespace == {" ", "\n", "\t"}

\* str.strip()
Strip(s) ==
    LET ink == {i \in 1..Len(s) : CharAt(s, i) \notin Whitespace}
        lo == CHOOSE i \in ink : \A j \in ink : i <= j
        hi == CHOOSE i \in ink : \A j \in ink : i >= j
    IN IF ink = {} THEN "" ELSE SubSeq(s, lo, hi)

\* maximal runs of characters of s outside the set seps, as <<first, last>> index pairs
Runs(s, seps) ==
    LET n == Len(s)
        starts == {i \in 1..n : CharAt(s, i) \notin seps
                                  /\ (i = 1 \/ CharAt(s, i - 1) \in seps)}
        EndOf(i) == CHOOSE j \in i..n :
                        /\ \A k \in i..j : CharAt(s, k) \notin seps
                        /\ (j = n \/ CharAt(s, j + 1) \in seps)
    IN {<<i, EndOf(i)>> : i \in starts}

\* len(s.split())
SplitLen(s) == Cardinality(Runs(s, Whitespace))

\* set(s.split())
SplitSet(s) == {SubSeq(s, r[1], r[2]) : r \in Runs(s, Whitespace)}

-----------------------------------------------------------------------------
(* count_words, calculate_text_similarity *)

count_words(text) == IF ~Truthy(text) THEN 0 ELSE SplitLen(text)

\* a slip that divides by the first text's vocabulary instead of the union
calculate_text_similarity_containment(t1arg, t2arg) ==
    IF ~Truthy(t1arg) \/ ~Truthy(t2arg) THEN Rat(0, 1)
    ELSE LET t1 == Strip(Lower(t1arg))
             t2 == Strip(Lower(t2arg))
             words1 == SplitSet(t1)
             words2 == SplitSet(t2)
         IN IF t1 = t2 THEN Rat(1, 1)
            ELSE IF words1 = {} \/ words2 = {} THEN Rat(0, 1)
            ELSE Rat(Cardinality(words1 \cap words2), Cardinality(words1))

\* a slip that tests the token sets before (instead of) the equal-strings shortcut
calculate_text_similarity_no_shortcut(t1arg, t2arg) ==
    IF ~Truthy(t1arg) \/ ~Truthy(t2arg) THEN Rat(0, 1)
    ELSE LET words1 == SplitSet(Strip(Lower(t1arg)))
             words2 == SplitSet(Strip(Lower(t2arg)))
         IN IF words1 = {} \/ words2 = {} THEN Rat(0, 1)
            ELSE Rat(Cardinality(words1 \cap words2), Cardinality(words1 \cup words2))

\* a slip that forgets .lower()
calculate_text_similarity_case_sensitive(t1arg, t2arg) ==
    IF ~Truthy(t1arg) \/ ~Truthy(t2arg) THEN Rat(0, 1)
    ELSE LET t1 == Strip(t1arg)
             t2 == Strip(t2arg)
             words1 == SplitSet(t1)
             words2 == SplitSet(t2)
         IN IF t1 = t2 THEN Rat(1, 1)
            ELSE IF words1 = {} \/ words2 = {} THEN Rat(0, 1)
            ELSE Rat(Cardinality(words1 \cap words2), Cardinality(words1 \cup words2))

calculate_text_similarity(t1arg, t2arg) ==
    IF ~Truthy(t1arg) \/ ~Truthy(t2arg) THEN Rat(0, 1)
    ELSE LET t1 == Strip(Lower(t1arg))
             t2 == Strip(Lower(t2arg))
             words1 == SplitSet(t1)
             words2 == SplitSet(t2)
             intersection == words1 \cap words2
             union == words1 \cup words2
         IN IF t1 = t2 THEN Rat(1, 1)
            ELSE IF words1 = {} \/ words2 = {} THEN Rat(0, 1)
            ELSE IF union # {} THEN Rat(Cardinality(intersection), Cardinality(union))
            ELSE Rat(0, 1)

-----------------------------------------------------------------------------
(* The long texts of the model, and their word counts and similarities,     *)
(* which are computed once                                                  *)

\* s * n (the count is halved to keep the nesting shallow)
RECURSIVE Repeat(_, _)
Repeat(s, n) ==
    IF n = 0 THEN ""
    ELSE IF n = 1 THEN s
    ELSE Repeat(s, n \div 2) \o Repeat(s, n - n \div 2)

\* texts of n numbered words, all different: two of them that differ in one
\* word have similarity 19/20 = 0.95, 39/40 = 0.975 or 49/50 = 0.98
RECURSIVE NumberedRange(_, _)
NumberedRange(a, b) ==
    IF a > b THEN ""
    ELSE IF a = b THEN "w" \o ToString(a) \o " "
    ELSE NumberedRange(a, (a + b) \div 2) \o NumberedRange((a + b) \div 2 + 1, b)

NumberedWords(n) == NumberedRange(1, n)

\* a sentence of 18 words with a transition, a hedge and a vague phrase, a
\* balance marker, an inflated word and a double space
RichSentence ==
    "It is important to note that it seems that we utilize studies show on the other hand  ok. "

\* bodies that draw many flags at once: 54 words; 340 words; and bodies of
\* exactly 300 and 301 words, on the two sides of the bibliographic gate
RichBodies ==
    {Repeat(RichSentence, 3),
     Repeat("A a a a a a a a. ", 2) \o Repeat(RichSentence, 18),
     Repeat("A a a a a a a a. ", 37) \o "a a a a",
     Repeat("A a a a a a a a. ", 37) \o "a a a a a"}

\* texts around the 50-word gate and the two thresholds: the similarity of
\* the 51- and 69-word texts is 51/69 (between 0.70 and 0.75), of the 51- and
\* 73-word texts 51/73 (below 0.70), of the 69- and 73-word texts 69/73
CrossTexts == {NumberedWords(n) : n \in {50, 51, 69, 73}}

\* the long texts of the model
MemoTexts == CrossTexts \cup RichBodies

WordCountMemo == [t \in MemoTexts |-> SplitLen(t)]

SimilarityMemo ==
    [a \in MemoTexts |-> [b \in MemoTexts |-> calculate_text_similarity(a, b)]]

\* len(text.split()), looked up for the long texts
WordCountOf(text) ==
    IF text \in DOMAIN WordCountMemo THEN WordCountMemo[text] ELSE SplitLen(text)

\* calculate_text_similarity(a, b), looked up for the long texts
SimilarityOf(a, b) ==
    IF a \in MemoTexts /\ b \in MemoTexts
    THEN SimilarityMemo[a][b]
    ELSE calculate_text_similarity(a, b)

-----------------------------------------------------------------------------
(* ASSIGNMENT_PROFILES: the keys the analysis reads *)

PROFILE_notes_brainstorm ==
    [checks_enabled |->
        [ai_transitions |-> FALSE,
         hedge_phrases |-> FALSE,
         inflated_vocabulary |-> TRUE,
         generic_phrases |-> FALSE,
         balance_markers |-> FALSE,
         passive_voice |-> FALSE,
         personal_markers |-> FALSE,
         emotional_markers |-> FALSE,
         complete_sentences |-> TRUE,
         paragraph_structure |-> TRUE,
         copy_paste |-> TRUE,
         cross_submission |-> TRUE,
         essay_organization |-> TRUE,
         headings_structure |-> TRUE],
     thresholds |->
        [min_word_count |-> 20,
         ai_transition_count |-> 999,
         passive_voice_percent |-> 100,
         complete_sentence_percent |-> 50,
         paragraph_count_suspicious |-> 3],
     invert_checks |->
        [complete_sentences |-> TRUE,
         paragraph_structure |-> TRUE]]

PROFILE_rough_draft ==
    [checks_enabled |->
        [ai_transitions |-> TRUE,
         hedge_phrases |-> FALSE,
         inflated_vocabulary |-> TRUE,
         generic_phrases |-> TRUE,
         balance_markers |-> FALSE,
         passive_voice |-> FALSE,
         personal_markers |-> FALSE,
         emotional_markers |-> FALSE,
         complete_sentences |-> FALSE,
         copy_paste |-> TRUE,
         cross_submission |-> TRUE],
     thresholds |->
        [min_word_count |-> 30,
         ai_transition_count |-> 5,
         passive_voice_percent |-> 60,
         complete_sentence_percent |-> 90]]

PROFILE_personal_reflection ==
    [checks_enabled |->
        [ai_transitions |-> TRUE,
         hedge_phrases |-> TRUE,
         inflated_vocabulary |-> TRUE,
         generic_phrases |-> TRUE,
         balance_markers |-> TRUE,
         passive_voice |-> TRUE,
         personal_markers |-> TRUE,
         emotional_markers |-> TRUE,
         complete_sentences |-> TRUE,
         copy_paste |-> TRUE,
         cross_submission |-> TRUE],
     thresholds |->
        [min_word_count |-> 50,
         ai_transition_count |-> 3,
         passive_voice_percent |-> 40,
         complete_sentence_percent |-> 85]]

PROFILE_discussion_post ==
    [checks_enabled |->
        [ai_transitions |-> TRUE,
         hedge_phrases |-> TRUE,
         inflated_vocabulary |-> TRUE,
         generic_phrases |-> TRUE,
         balance_markers |-> TRUE,
         passive_voice |-> FALSE,
         personal_markers |-> TRUE,
         emotional_markers |-> TRUE,
         complete_sentences |-> FALSE,
         copy_paste |-> TRUE,
         cross_submission |-> TRUE],
     thresholds |->
        [min_word_count |-> 30,
         ai_transition_count |-> 2,
         passive_voice_percent |-> 50,
         complete_sentence_percent |-> 90]]

PROFILE_analytical_essay ==
    [checks_enabled |->
        [ai_transitions |-> TRUE,
         hedge_phrases |-> TRUE,
         inflated_vocabulary |-> TRUE,
         generic_phrases |-> TRUE,
         balance_markers |-> TRUE,
         passive_voice |-> TRUE,
         personal_markers |-> FALSE,
         emotional_markers |-> FALSE,
         complete_sentences |-> TRUE,
         copy_paste |-> TRUE,
         cross_submission |-> TRUE],
     thresholds |->
        [min_word_count |-> 50,
         ai_transition_count |-> 3,
         passive_voice_percent |-> 45,
         complete_sentence_percent |-> 80]]

PROFILE_research_paper ==
    [checks_enabled |->
        [ai_transitions |-> TRUE,
         hedge_phrases |-> TRUE,
         inflated_vocabulary |-> TRUE,
         generic_phrases |-> TRUE,
         balance_markers |-> TRUE,
         passive_voice |-> TRUE,
         personal_markers |-> FALSE,
         emotional_markers |-> FALSE,
         complete_sentences |-> TRUE,
         copy_paste |-> TRUE,
         cross_submission |-> TRUE],
     thresholds |->
        [min_word_count |-> 100,
         ai_transition_count |-> 4,
         passive_voice_percent |-> 55,
         complete_sentence_percent |-> 75]]

PROFILE_creative_writing ==
    [checks_enabled |->
        [ai_transitions |-> FALSE,
         hedge_phrases |-> FALSE,
         inflated_vocabulary |-> TRUE,
         generic_phrases |-> TRUE,
         balance_markers |-> FALSE,
         passive_voice |-> FALSE,
         personal_markers |-> FALSE,
         emotional_markers |-> TRUE,
         complete_sentences |-> FALSE,
         copy_paste |-> TRUE,
         cross_submission |-> TRUE],
     thresholds |->
        [min_word_count |-> 50,
         ai_transition_count |-> 999,
         passive_voice_percent |-> 100,
         complete_sentence_percent |-> 100]]

PROFILE_standard ==
    [checks_enabled |->
        [ai_transitions |-> TRUE,
         hedge_phrases |-> TRUE,
         inflated_vocabulary |-> TRUE,
         generic_phrases |-> TRUE,
         balance_markers |-> TRUE,
         passive_voice |-> TRUE,
         personal_markers |-> TRUE,
         emotional_markers |-> TRUE,
         complete_sentences |-> TRUE,
         copy_paste |-> TRUE,
         cross_submission |-> TRUE],
     thresholds |->
        [min_word_count |-> 50,
         ai_transition_count |-> 3,
         passive_voice_percent |-> 45,
         complete_sentence_percent |-> 80]]

ASSIGNMENT_PROFILES ==
    [notes_brainstorm |-> PROFILE_notes_brainstorm,
     rough_draft |-> PROFILE_rough_draft,
     personal_reflection |-> PROFILE_personal_reflection,
     discussion_post |-> PROFILE_discussion_post,
     analytical_essay |-> PROFILE_analytical_essay,
     research_paper |-> PROFILE_research_paper,
     creative_writing |-> PROFILE_creative_writing,
     standard |-> PROFILE_standard]

\* a slip that leaves out the fallback profile
get_profile_no_default(key) == DictGet(ASSIGNMENT_PROFILES, key, EmptyDict)

get_profile(key) == DictGet(ASSIGNMENT_PROFILES, key, ASSIGNMENT_PROFILES["standard"])

\* a slip that treats a check the profile does not mention as disabled
is_check_enabled_fail_closed(name) ==
    IF CURRENT_PROFILE = None THEN TRUE
    ELSE DictGet(DictGet(get_profile(CURRENT_PROFILE), "checks_enabled", EmptyDict), name, FALSE)

is_check_enabled(name) ==
    IF CURRENT_PROFILE = None THEN TRUE
    ELSE LET profile == get_profile(CURRENT_PROFILE)
         IN DictGet(DictGet(profile, "checks_enabled", EmptyDict), name, TRUE)

default_thresholds ==
    [min_word_count |-> 50,
     ai_transition_count |-> 3,
     passive_voice_percent |-> 45,
     complete_sentence_percent |-> 80]

get_threshold(name) ==
    IF CURRENT_PROFILE = None THEN DictGet(default_thresholds, name, 50)
    ELSE LET profile == get_profile(CURRENT_PROFILE)
         IN DictGet(DictGet(profile, "thresholds", EmptyDict), name, 50)

\* the keys select_assignment_profile can return
SelectableProfiles ==
    {"notes_brainstorm", "rough_draft", "personal_reflection", "discussion_post",
     "analytical_essay", "research_paper", "creative_writing", "standard"}

-----------------------------------------------------------------------------
(* Substring search and regular-expression splitting *)

\* first indices of the occurrences of p in s
Occurrences(s, p) ==
    {i \in 1..(Len(s) - Len(p) + 1) : SubSeq(s, i, i + Len(p) - 1) = p}

Min(S) == CHOOSE x \in S : \A y \in S : x <= y

\* non-overlapping occurrences among occ, taken left to right from index from
RECURSIVE CountFrom(_, _, _)
CountFrom(occ, m, from) ==
    LET rest == {i \in occ : i >= from}
    IN IF rest = {} THEN 0 ELSE 1 + CountFrom(occ, m, Min(rest) + m)

\* s.count(p)
Count(s, p) == CountFrom(Occurrences(s, p), Len(p), 1)

\* p in s
Contains(s, p) == Occurrences(s, p) # {}

\* s.startswith(p)
StartsWith(s, p) == Len(s) >= Len(p) /\ SubSeq(s, 1, Len(p)) = p

\* sum of s.count(phrase) over a list of phrases
RECURSIVE CountPhrases(_, _)
CountPhrases(s, phrases) ==
    IF phrases = <<>> THEN 0
    ELSE Count(s, Head(phrases)) + CountPhrases(s, Tail(phrases))

\* the characters of the class [.!?]
SentenceEnd == {".", "!", "?"}

\* len(re.split(r'[.!?]+', s)): one piece more than there are runs of [.!?]
SentenceSplitLen(s) ==
    Cardinality({i \in 1..Len(s) : /\ CharAt(s, i) \in SentenceEnd
                                    /\ (i = 1 \/ CharAt(s, i - 1) \notin SentenceEnd)}) + 1

\* the pieces of re.split(r'[.!?]+', s) that are non-empty after strip(), as index pairs
SentenceRuns(s) ==
    {r \in Runs(s, SentenceEnd) : Strip(SubSeq(s, r[1], r[2])) # ""}

\* ', '.join(items)
RECURSIVE Join(_)
Join(items) ==
    IF items = <<>> THEN ""
    ELSE IF Len(items) = 1 THEN items[1]
    ELSE items[1] \o ", " \o Join(Tail(items))

\* int(x * 100) for a non-negative fraction x
Percent(x) == (x.num * 100) \div x.den

-----------------------------------------------------------------------------
(* Phrase tables *)

AI_TRANSITIONS ==
    <<"it is important to note", "it should be noted", "it is worth noting",
      "in conclusion", "to sum up", "in summary", "to summarize", "furthermore",
      "moreover", "additionally", "in addition", "this essay will explore",
      "this paper will examine", "this section will discuss",
      "as previously mentioned", "as stated above", "as discussed earlier",
      "on the one hand", "on the other hand", "conversely", "however", "firstly",
      "secondly", "thirdly", "lastly", "finally">>

HEDGE_PHRASES ==
    <<"it can be argued that", "it could be said that", "one might argue",
      "it is possible that", "arguably", "presumably", "ostensibly", "it appears that",
      "it seems that", "tends to suggest">>

INFLATED_VOCAB ==
    <<<<"utilize", "use">>, <<"demonstrate", "show">>, <<"individuals", "people">>,
      <<"commence", "start">>, <<"terminate", "end">>, <<"endeavor", "try">>,
      <<"facilitate", "help">>, <<"implement", "do">>, <<"ascertain", "find out">>,
      <<"optimal", "best">>, <<"subsequent", "next">>, <<"prior to", "before">>,
      <<"in order to", "to">>, <<"due to the fact that", "because">>>>

GENERIC_PHRASES ==
    <<"many things", "various aspects", "in today's society", "in today's world",
      "throughout history", "since the beginning of time", "it can be said",
      "some people believe", "it is believed that", "one could argue", "studies show",
      "research indicates", "experts say", "it has been shown", "this shows that",
      "this proves that", "overall", "basically", "a variety of", "a number of",
      "plays a crucial role", "of paramount importance">>

BALANCE_MARKERS ==
    <<"both sides", "both perspectives", "different viewpoints", "various opinions",
      "while some argue", "others contend", "there are arguments for and against">>

EMOTIONAL_MARKERS ==
    <<"i feel", "i felt", "i was", "i struggled", "i realized", "i noticed",
      "confused", "frustrated", "excited", "surprised", "shocked", "angry", "it hurt",
      "i cried", "i laughed", "nervous", "scared", "proud">>

-----------------------------------------------------------------------------
(* The checks computed from the text alone *)

check_ai_transitions(text) ==
    IF ~Truthy(text) THEN 0 ELSE CountPhrases(Lower(text), AI_TRANSITIONS)

check_hedge_phrases(text) ==
    IF ~Truthy(text) THEN 0 ELSE CountPhrases(Lower(text), HEDGE_PHRASES)

RECURSIVE FoundVocabulary(_, _)
FoundVocabulary(text_lower, vocab) ==
    IF vocab = <<>> THEN <<>>
    ELSE (IF Contains(text_lower, Head(vocab)[1])
          THEN <<Head(vocab)[1] \o " (vs " \o Head(vocab)[2] \o ")">>
          ELSE <<>>) \o FoundVocabulary(text_lower, Tail(vocab))

check_inflated_vocabulary(text) ==
    IF ~Truthy(text) THEN <<>> ELSE FoundVocabulary(Lower(text), INFLATED_VOCAB)

check_generic_content(text) ==
    IF ~Truthy(text) THEN 0 ELSE CountPhrases(Lower(text), GENERIC_PHRASES)

check_balance_markers(text) ==
    IF ~Truthy(text) THEN 0 ELSE CountPhrases(Lower(text), BALANCE_MARKERS)

check_emotional_markers(text) ==
    IF ~Truthy(text) THEN 0 ELSE CountPhrases(Lower(text), EMOTIONAL_MARKERS)

check_sentence_completeness(text) ==
    IF ~Truthy(text) THEN Rat(0, 1)
    ELSE LET sentences == SentenceRuns(text)
             Sentence(r) == Strip(SubSeq(text, r[1], r[2]))
             complete == {r \in sentences :
                             /\ SplitLen(Sentence(r)) >= 8
                             /\ IsUpper(CharAt(Sentence(r), 1))}
         IN IF sentences = {} THEN Rat(0, 1)
            ELSE Rat(Cardinality(complete), Cardinality(sentences))

\* s.split(sep)
RECURSIVE SplitOn(_, _)
SplitOn(s, sep) ==
    LET occ == Occurrences(s, sep)
        i == Min(occ)
    IN IF occ = {} THEN <<s>>
       ELSE <<SubSeq(s, 1, i - 1)>> \o SplitOn(SubSeq(s, i + Len(sep), Len(s)), sep)

\* [p.strip() for p in pieces if p.strip()]
RECURSIVE StripNonEmpty(_)
StripNonEmpty(pieces) ==
    IF pieces = <<>> THEN <<>>
    ELSE (IF Strip(Head(pieces)) # "" THEN <<Strip(Head(pieces))>> ELSE <<>>)
         \o StripNonEmpty(Tail(pieces))

RECURSIVE SumSeq(_)
SumSeq(q) == IF q = <<>> THEN 0 ELSE Head(q) + SumSeq(Tail(q))

\* check_paragraph_uniformity returns 1 - cv when cv < 1 and 0 otherwise, cv
\* being a square root.  The model returns cv squared, an exact fraction, and
\* stands for each "return 0.0" by cv squared = 1.
ZeroUniformity == Rat(1, 1)

check_paragraph_uniformity(text) ==
    IF ~Truthy(text) THEN ZeroUniformity
    ELSE LET paragraphs == StripNonEmpty(SplitOn(text, "\n\n"))
             n == Len(paragraphs)
             lengths == [k \in 1..n |-> SplitLen(paragraphs[k])]
             total == SumSeq(lengths)
             squares == SumSeq([k \in 1..n |-> lengths[k] * lengths[k]])
         IN IF n < 3 THEN ZeroUniformity
            ELSE IF total = 0 THEN ZeroUniformity
            ELSE IF n * squares - total * total < total * total
                 THEN Rat(n * squares - total * total, total * total)
                 ELSE ZeroUniformity

\* uniformity > 0.8, i.e. cv < 0.2, i.e. 25 * cv squared < 1
UniformityAbove80(cv2) == 25 * cv2.num < cv2.den

check_repetitive_reasoning(text) ==
    IF ~Truthy(text) THEN FALSE
    ELSE LET long == {r \in Runs(text, SentenceEnd) :
                         Len(Strip(SubSeq(text, r[1], r[2]))) > 20}
             Sentence(r) == Lower(Strip(SubSeq(text, r[1], r[2])))
             pairs == {q \in long \X long : q[1][1] < q[2][1]}
             similar_pairs == Cardinality({q \in pairs :
                                  RatGT(calculate_text_similarity(Sentence(q[1]), Sentence(q[2])),
                                        Rat(7, 10))})
             total_pairs == Cardinality(pairs)
         IN IF Cardinality(long) < 5 THEN FALSE
            ELSE IF total_pairs > 0 THEN 5 * similar_pairs > total_pairs
            ELSE FALSE

check_copy_paste_indicators(text) ==
    IF ~Truthy(text) THEN <<>>
    ELSE (IF Contains(text, "  ") THEN <<"Multiple consecutive spaces">> ELSE <<>>)
         \o (IF Contains(text, "\n\n\n") THEN <<"Excessive line breaks">> ELSE <<>>)
         \o (IF Contains(text, "\t") /\ Contains(text, "    ")
             THEN <<"Mixed tab/space formatting">> ELSE <<>>)
         \o (IF Contains(text, "\f") THEN <<"Special formatting characters">> ELSE <<>>)

DIGITS == "0123456789"

IsDigit(c) == \E i \in 1..Len(DIGITS) : CharAt(DIGITS, i) = c

\* the rest of a file name matches .*$ : no line break but a last one
MatchesRestOfLine(r) == \A i \in 1..Len(r) : CharAt(r, i) = "\n" => i = Len(r)

\* re.match(r"^<stem>\d*\..*$", name)
MatchesNumberedStem(name, stem) ==
    /\ StartsWith(name, stem)
    /\ LET rest == SubSeq(name, Len(stem) + 1, Len(name))
           digits == Cardinality({i \in 1..Len(rest) : \A k \in 1..i : IsDigit(CharAt(rest, k))})
       IN /\ Len(rest) > digits
          /\ CharAt(rest, digits + 1) = "."
          /\ MatchesRestOfLine(SubSeq(rest, digits + 2, Len(rest)))

GENERIC_FILENAMES ==
    <<"untitled", "document", "assignment", "file", "download", "new file">>

check_generic_filename(filename) ==
    IF ~Truthy(filename) THEN FALSE
    ELSE LET filename_lower == Lower(filename)
         IN \/ \E k \in 1..Len(GENERIC_FILENAMES) :
                   MatchesNumberedStem(filename_lower, GENERIC_FILENAMES[k])
            \/ /\ StartsWith(filename_lower, "copy of ")
               /\ MatchesRestOfLine(SubSeq(filename_lower, 9, Len(filename_lower)))

-----------------------------------------------------------------------------
(* The checks built on regular expressions over the prose.  What they find  *)
(* in a given text is left open: `found' holds one possible outcome of each *)
(* for the text under analysis, and the guards of the functions are kept.   *)

check_passive_voice(text, outcome) ==
    IF ~Truthy(text) THEN 0 ELSE outcome.passive_count

check_personal_markers(text, outcome) ==
    IF ~Truthy(text) THEN 0 ELSE outcome.personal_count

check_essay_organization(text, outcome) ==
    IF ~Truthy(text) \/ Len(text) < 200 THEN [flags |-> <<>>]
    ELSE [flags |-> outcome.organization_flags]

check_headings_structure(text, outcome) ==
    IF ~Truthy(text) THEN [flags |-> <<>>] ELSE [flags |-> outcome.heading_flags]

check_paragraph_as_prose_in_notes(text, outcome) ==
    IF ~Truthy(text) THEN [flags |-> <<>>] ELSE [flags |-> outcome.prose_flags]

check_bibliographic_markers(text, outcome) ==
    IF ~Truthy(text) THEN [flags |-> <<>>] ELSE [flags |-> outcome.bibliographic_flags]

-----------------------------------------------------------------------------
(* analyze_submission *)

MIN_FILE_SIZE == 1024

\* DUPLICATE_SIMILARITY_THRESHOLD = 0.85
DUPLICATE_SIMILARITY_THRESHOLD == Rat(85, 100)

\* the results of the text-only checks for one body
TextChecks(body) ==
    [word_count |-> count_words(body),
     transition_count |-> check_ai_transitions(body),
     hedge_count |-> check_hedge_phrases(body),
     inflated |-> check_inflated_vocabulary(body),
     generic_count |-> check_generic_content(body),
     balance_count |-> check_balance_markers(body),
     total_sentences |-> SentenceSplitLen(body),
     emotional_count |-> check_emotional_markers(body),
     uniformity |-> check_paragraph_uniformity(body),
     repetitive |-> check_repetitive_reasoning(body),
     copy_indicators |-> check_copy_paste_indicators(body),
     completeness |-> check_sentence_completeness(body)]

\* a slip that measures every profile against the default of 50 words
ShortTextFlags_default_threshold(word_count) ==
    IF word_count > 0 /\ word_count < 50
    THEN <<"Very short text (" \o ToString(word_count) \o " words)">>
    ELSE <<>>

\* 1. Length check (always enabled)
ShortTextFlags(word_count) ==
    LET min_words == get_threshold("min_word_count")
    IN IF word_count > 0 /\ word_count < min_words
       THEN <<"Very short text (" \o ToString(word_count) \o " words)">>
       ELSE <<>>

\* the step as the app bundle's copy of the program has it: no profile gate, threshold 3
TransitionFlags_ungated(c) ==
    IF c.transition_count >= 3
    THEN <<"Cliched transitions (" \o ToString(c.transition_count) \o " instances)">>
    ELSE <<>>

\* 2. AI Transitions check (the flag text is spelled with an e acute in the source)
TransitionFlags(c) ==
    IF is_check_enabled("ai_transitions")
    THEN LET threshold == get_threshold("ai_transition_count")
         IN IF c.transition_count >= threshold
            THEN <<"Cliched transitions (" \o ToString(c.transition_count) \o " instances)">>
            ELSE <<>>
    ELSE <<>>

\* 3. Hedge phrases
HedgeFlags(c) ==
    IF is_check_enabled("hedge_phrases") /\ c.hedge_count >= 2
    THEN <<"Excessive hedging (" \o ToString(c.hedge_count) \o " hedge phrases)">>
    ELSE <<>>

\* 4. Vocabulary inflation
InflatedFlags(c) ==
    IF is_check_enabled("inflated_vocabulary") /\ Len(c.inflated) >= 3
    THEN <<"Inflated vocabulary: " \o Join(SubSeq(c.inflated, 1, 3))>>
    ELSE <<>>

\* 5. Generic/vague content
GenericFlags(c) ==
    IF is_check_enabled("generic_phrases") /\ c.generic_count >= 3
    THEN <<"Generic/vague content (" \o ToString(c.generic_count) \o " vague phrases)">>
    ELSE <<>>

\* 6. Over-balanced writing
BalanceFlags(c) ==
    IF is_check_enabled("balance_markers") /\ c.balance_count >= 2
    THEN <<"Over-balanced/false equivalence (" \o ToString(c.balance_count) \o " markers)">>
    ELSE <<>>

\* 7. Excessive passive voice: passive_count / total_sentences > percent / 100
PassiveFlags(body, c, outcome) ==
    IF is_check_enabled("passive_voice")
    THEN LET passive_count == check_passive_voice(body, outcome)
             passive_threshold == Rat(get_threshold("passive_voice_percent"), 100)
         IN IF /\ c.total_sentences > 5
               /\ RatGT(Rat(passive_count, c.total_sentences), passive_threshold)
            THEN <<"Excessive passive voice ("
                   \o ToString(Percent(Rat(passive_count, c.total_sentences))) \o "%)">>
            ELSE <<>>
    ELSE <<>>

\* 8. Lack of personal markers
PersonalFlags(body, c, outcome) ==
    IF /\ is_check_enabled("personal_markers")
       /\ c.word_count > 200
       /\ check_personal_markers(body, outcome) < 3
    THEN <<"Lacks personal/embodied language">>
    ELSE <<>>

\* 9. Lack of emotional markers
EmotionalFlags(c) ==
    IF is_check_enabled("emotional_markers") /\ c.word_count > 200 /\ c.emotional_count = 0
    THEN <<"No emotional/vulnerable language">>
    ELSE <<>>

\* a slip that checks the paragraphs under every profile
UniformityFlags_ungated(c) ==
    IF UniformityAbove80(c.uniformity)
    THEN <<"Suspiciously uniform paragraphs (mechanical structure)">>
    ELSE <<>>

\* 10. Uniform paragraph structure
UniformityFlags(c) ==
    IF is_check_enabled("complete_sentences") /\ UniformityAbove80(c.uniformity)
    THEN <<"Suspiciously uniform paragraphs (mechanical structure)">>
    ELSE <<>>

\* a slip that runs the repetitive-reasoning check for formal work only
RepetitiveFlags_gated(c) ==
    IF is_check_enabled("complete_sentences") /\ c.repetitive
    THEN <<"Repetitive/circular reasoning detected">> ELSE <<>>

\* 11. Repetitive reasoning (always enabled)
RepetitiveFlags(c) ==
    IF c.repetitive THEN <<"Repetitive/circular reasoning detected">> ELSE <<>>

\* 12. Copy-paste indicators
CopyPasteFlags(c) ==
    IF is_check_enabled("copy_paste") /\ c.copy_indicators # <<>>
    THEN <<"Copy-paste indicators: " \o Join(c.copy_indicators)>>
    ELSE <<>>

\* profile = get_profile(CURRENT_PROFILE) if CURRENT_PROFILE else {}
\* invert_checks = profile.get("invert_checks", {})
InvertChecks ==
    LET profile == IF Truthy(CURRENT_PROFILE) THEN get_profile(CURRENT_PROFILE) ELSE EmptyDict
    IN DictGet(profile, "invert_checks", EmptyDict)

\* a slip that leaves out the inversion for notes
CompletenessFlags_no_inversion(c) ==
    IF is_check_enabled("complete_sentences")
    THEN LET completeness_threshold == Rat(get_threshold("complete_sentence_percent"), 100)
             percent == ToString(Percent(c.completeness))
         IN IF RatGT(c.completeness, completeness_threshold) /\ c.word_count > 100
            THEN <<"Suspiciously polished (" \o percent \o "% complete sentences)">>
            ELSE <<>>
    ELSE <<>>

\* 13. Suspiciously polished (complete sentences), inverted for notes
CompletenessFlags(c) ==
    IF is_check_enabled("complete_sentences")
    THEN LET completeness_threshold == Rat(get_threshold("complete_sentence_percent"), 100)
             percent == ToString(Percent(c.completeness))
         IN IF DictGet(InvertChecks, "complete_sentences", FALSE)
            THEN IF RatGT(c.completeness, completeness_threshold) /\ c.word_count > 50
                 THEN <<"Too polished for notes (" \o percent
                        \o "% complete sentences - expected fragments)">>
                 ELSE <<>>
            ELSE IF RatGT(c.completeness, completeness_threshold) /\ c.word_count > 100
                 THEN <<"Suspiciously polished (" \o percent \o "% complete sentences)">>
                 ELSE <<>>
    ELSE <<>>

\* 14. Essay-level organization checks
OrganizationFlags(body, outcome) ==
    IF is_check_enabled("essay_organization")
    THEN check_essay_organization(body, outcome).flags
    ELSE <<>>

\* 15. Heading structure checks
HeadingFlags(body, outcome) ==
    IF is_check_enabled("headings_structure")
    THEN check_headings_structure(body, outcome).flags
    ELSE <<>>

\* 16. For notes/outlines: check if submission is actually prose
ProseFlags(body, outcome) ==
    IF /\ is_check_enabled("paragraph_structure")
       /\ DictGet(InvertChecks, "paragraph_structure", FALSE)
    THEN check_paragraph_as_prose_in_notes(body, outcome).flags
    ELSE <<>>

\* a slip that lets a body of exactly 300 words through the gate
BibliographicFlags_from_300(body, c, outcome) ==
    IF c.word_count >= 300 THEN check_bibliographic_markers(body, outcome).flags ELSE <<>>

\* 17. Bibliographic checks
BibliographicFlags(body, c, outcome) ==
    IF c.word_count > 300 THEN check_bibliographic_markers(body, outcome).flags ELSE <<>>

\* the text an f-string puts for a text or None
Str(x) == IF x = None THEN "None" ELSE x

\* other_sub.get("user", {}).get("name", f"User {other_user_id}")
OtherUserName(other_sub) ==
    DictGet(DictGet(other_sub, "user", EmptyDict), "name",
            "User " \o Str(DictGet(other_sub, "user_id", None)))

SimilarFlag(other_sub, sim) ==
    "Highly similar to " \o Str(OtherUserName(other_sub)) \o "'s submission ("
        \o ToString(Percent(sim)) \o "% match)"

\* a slip that leaves out the break after the first match
RECURSIVE ScanSiblings_no_break(_, _, _, _)
ScanSiblings_no_break(current_user_id, body, siblings, k) ==
    IF k > Len(siblings) THEN <<>>
    ELSE LET other_sub == siblings[k]
             other_body == DictGet(other_sub, "body", "")
             sim == SimilarityOf(body, other_body)
         IN (IF /\ DictGet(other_sub, "user_id", None) # current_user_id
                /\ Truthy(other_body)
                /\ RatGE(sim, DUPLICATE_SIMILARITY_THRESHOLD)
             THEN <<SimilarFlag(other_sub, sim)>>
             ELSE <<>>) \o ScanSiblings_no_break(current_user_id, body, siblings, k + 1)

\* a slip that compares a submission with its author's own entry too
RECURSIVE ScanSiblings_with_self(_, _, _, _)
ScanSiblings_with_self(current_user_id, body, siblings, k) ==
    IF k > Len(siblings) THEN <<>>
    ELSE LET other_sub == siblings[k]
             other_body == DictGet(other_sub, "body", "")
             sim == SimilarityOf(body, other_body)
         IN IF Truthy(other_body) /\ RatGE(sim, DUPLICATE_SIMILARITY_THRESHOLD)
            THEN <<SimilarFlag(other_sub, sim)>>
            ELSE ScanSiblings_with_self(current_user_id, body, siblings, k + 1)

\* the loop over all_submissions from index k on
RECURSIVE ScanSiblings(_, _, _, _)
ScanSiblings(current_user_id, body, siblings, k) ==
    IF k > Len(siblings) THEN <<>>
    ELSE LET other_sub == siblings[k]
             other_user_id == DictGet(other_sub, "user_id", None)
             other_body == DictGet(other_sub, "body", "")
             sim == SimilarityOf(body, other_body)
         IN IF other_user_id = current_user_id
            THEN ScanSiblings(current_user_id, body, siblings, k + 1)
            ELSE IF Truthy(other_body) /\ RatGE(sim, DUPLICATE_SIMILARITY_THRESHOLD)
                 THEN <<SimilarFlag(other_sub, sim)>>
                 ELSE ScanSiblings(current_user_id, body, siblings, k + 1)

\* the loop over all_submissions from index k on raises AttributeError: the
\* first sibling that reaches the threshold has None for its user record
RECURSIVE ScanRaises(_, _, _, _)
ScanRaises(current_user_id, body, siblings, k) ==
    IF k > Len(siblings) THEN FALSE
    ELSE LET other_sub == siblings[k]
             other_user_id == DictGet(other_sub, "user_id", None)
             other_body == DictGet(other_sub, "body", "")
             sim == SimilarityOf(body, other_body)
         IN IF other_user_id = current_user_id
            THEN ScanRaises(current_user_id, body, siblings, k + 1)
            ELSE IF Truthy(other_body) /\ RatGE(sim, DUPLICATE_SIMILARITY_THRESHOLD)
                 THEN IsNone(DictGet(other_sub, "user", EmptyDict))
                 ELSE ScanRaises(current_user_id, body, siblings, k + 1)

\* 18. Check for cross-submission similarity
CrossSubmissionFlags(sub, body, siblings) ==
    IF is_check_enabled("cross_submission")
    THEN ScanSiblings(DictGet(sub, "user_id", None), body, siblings, 1)
    ELSE <<>>

\* a slip that tests the file name before the file size
RECURSIVE AttachmentFlags_name_first(_)
AttachmentFlags_name_first(attachments) ==
    IF attachments = <<>> THEN <<>>
    ELSE LET file == Head(attachments)
             file_size == DictGet(file, "size", 0)
             file_name == DictGet(file, "filename", "unknown")
         IN (IF check_generic_filename(file_name)
             THEN <<"Generic filename: '" \o Str(file_name) \o "'">>
             ELSE <<>>)
            \o (IF file_size > 0 /\ file_size < MIN_FILE_SIZE
                THEN <<"Small file '" \o Str(file_name) \o "' (" \o ToString(file_size) \o " bytes)">>
                ELSE <<>>)
            \o AttachmentFlags_name_first(Tail(attachments))

\* Check attachments (always enabled)
RECURSIVE AttachmentFlags(_)
AttachmentFlags(attachments) ==
    IF attachments = <<>> THEN <<>>
    ELSE LET file == Head(attachments)
             file_size == DictGet(file, "size", 0)
             file_name == DictGet(file, "filename", "unknown")
         IN (IF file_size > 0 /\ file_size < MIN_FILE_SIZE
             THEN <<"Small file '" \o Str(file_name) \o "' (" \o ToString(file_size) \o " bytes)">>
             ELSE <<>>)
            \o (IF check_generic_filename(file_name)
                THEN <<"Generic filename: '" \o Str(file_name) \o "'">>
                ELSE <<>>)
            \o AttachmentFlags(Tail(attachments))

\* the loop over the attachments raises TypeError: file_size > 0 with a size of None
AttachmentRaises(attachments) ==
    \E k \in 1..Len(attachments) : IsNone(DictGet(attachments[k], "size", 0))

\* a list that is not empty
NonEmptyList(x) == ~IsNone(x) /\ x # <<>>

UrlFlags(url, body, attachments) ==
    IF Truthy(url) /\ ~Truthy(body) /\ ~NonEmptyList(attachments)
    THEN <<"URL with no description">>
    ELSE <<>>

\* the flags of the text checks, for a body that is truthy; c holds the
\* results of the text-only checks for that body
TextFlags(sub, body, siblings, c, outcome) ==
    ShortTextFlags(c.word_count)
        \o TransitionFlags(c)
        \o HedgeFlags(c)
        \o InflatedFlags(c)
        \o GenericFlags(c)
        \o BalanceFlags(c)
        \o PassiveFlags(body, c, outcome)
        \o PersonalFlags(body, c, outcome)
        \o EmotionalFlags(c)
        \o UniformityFlags(c)
        \o RepetitiveFlags(c)
        \o CopyPasteFlags(c)
        \o CompletenessFlags(c)
        \o OrganizationFlags(body, outcome)
        \o HeadingFlags(body, outcome)
        \o ProseFlags(body, outcome)
        \o BibliographicFlags(body, c, outcome)
        \o CrossSubmissionFlags(sub, body, siblings)

-----------------------------------------------------------------------------
(* compare_drafts *)

\* set(s.strip().lower() for s in re.split(r'[.!?]+', text) if s.strip())
SentenceSet(text) == {Lower(Strip(SubSeq(text, r[1], r[2]))) : r \in SentenceRuns(text)}

NO_REVISION_FLAG == "CRITICAL: Drafts are essentially identical - no revision occurred"
MINIMAL_REVISION_FLAG == "Drafts are nearly identical (>95% similar) - minimal revision"

\* the part of compare_drafts after the test for identical drafts
RevisionAnalysis(d1, d2, sim) ==
    LET len1 == SplitLen(d1)
        len2 == SplitLen(d2)
        sentences1 == SentenceSet(d1)
        sentences2 == SentenceSet(d2)
        added == sentences2 \ sentences1
        removed == sentences1 \ sentences2
        total_sentences == Cardinality(sentences1 \cup sentences2)
        change_ratio == IF total_sentences > 0
                        THEN Rat(Cardinality(added) + Cardinality(removed), total_sentences)
                        ELSE Rat(0, 1)
        sentence_score == IF RatGE(change_ratio, Rat(30, 100)) THEN 30
                          ELSE IF RatGE(change_ratio, Rat(15, 100)) THEN 20
                          ELSE IF RatGE(change_ratio, Rat(5, 100)) THEN 10
                          ELSE 0
        revision_level == IF RatGE(change_ratio, Rat(30, 100)) THEN "substantial"
                          ELSE IF RatGE(change_ratio, Rat(15, 100)) THEN "moderate"
                          ELSE IF RatGE(change_ratio, Rat(5, 100)) THEN "light"
                          ELSE "minimal"
        paras1 == StripNonEmpty(SplitOn(d1, "\n\n"))
        paras2 == StripNonEmpty(SplitOn(d2, "\n\n"))
        paragraph_score == IF Len(paras1) # Len(paras2) THEN 10 ELSE 0
        new_words == SplitSet(d2) \ SplitSet(d1)
        unique_new_words == Cardinality({w \in new_words : Len(w) > 4})
        vocabulary_score == IF unique_new_words >= 20 THEN 20
                            ELSE IF unique_new_words >= 10 THEN 10
                            ELSE 0
        close == Cardinality({k \in 1..Len(paras1) :
                     LET gap == SplitLen(paras1[k]) - SplitLen(paras2[k])
                     IN gap < 10 /\ gap > -10})
        regenerated == /\ RatGT(Rat(1, 2), sim)
                       /\ Len(paras1) = Len(paras2)
                       /\ RatGT(Rat(close, Len(paras1)), Rat(7, 10))
        summed == sentence_score + paragraph_score + vocabulary_score
        revision_score == IF summed < 100 THEN summed ELSE 100
    IN [flags |->
            (IF RatGE(sim, Rat(95, 100)) THEN <<MINIMAL_REVISION_FLAG>> ELSE <<>>)
            \o (IF revision_level = "minimal"
                THEN <<"Very few sentence-level changes between drafts">> ELSE <<>>)
            \o (IF regenerated
                THEN <<"Low text similarity but similar paragraph structure - possible AI regeneration">>
                ELSE <<>>)
            \o (IF 10 * len2 < 7 * len1
                THEN <<"Final draft significantly shorter than rough draft - unusual">>
                ELSE <<>>)
            \o (IF revision_score < 20
                THEN <<"Insufficient revision between drafts">> ELSE <<>>),
        details |->
            [draft1_words |-> len1,
             draft2_words |-> len2,
             word_change |-> len2 - len1,
             word_change_percent |-> IF len1 # 0 THEN Rat((len2 - len1) * 100, len1)
                                     ELSE Rat(0, 1),
             overall_similarity |-> sim,
             sentences_unchanged |-> Cardinality(sentences1 \cap sentences2),
             sentences_added |-> Cardinality(added),
             sentences_removed |-> Cardinality(removed),
             sentence_change_ratio |-> change_ratio,
             revision_level |-> revision_level,
             new_vocabulary_words |-> unique_new_words]
            @@ (IF Len(paras1) # Len(paras2)
                THEN [paragraph_structure_changed |-> TRUE] ELSE EmptyDict)
            @@ (IF regenerated THEN [possible_regeneration |-> TRUE] ELSE EmptyDict),
        revision_score |-> revision_score]

\* a slip that leaves out the flag for a low revision score
compare_drafts_low_score_unflagged(d1, d2) ==
    IF ~Truthy(d1) \/ ~Truthy(d2)
    THEN [flags |-> <<>>, details |-> EmptyDict, revision_score |-> 0]
    ELSE LET sim == calculate_text_similarity(d1, d2)
             analysis == RevisionAnalysis(d1, d2, sim)
         IN IF RatGE(sim, Rat(98, 100))
            THEN [flags |-> <<NO_REVISION_FLAG>>,
                  details |-> [overall_similarity |-> sim],
                  revision_score |-> 0]
            ELSE [analysis EXCEPT !.flags =
                      SelectSeq(@, LAMBDA f : f # "Insufficient revision between drafts")]

\* a slip that also gives points for a longer second draft
compare_drafts_longer_draft_bonus(d1, d2) ==
    IF ~Truthy(d1) \/ ~Truthy(d2)
    THEN [flags |-> <<>>, details |-> EmptyDict, revision_score |-> 0]
    ELSE LET sim == calculate_text_similarity(d1, d2)
             analysis == RevisionAnalysis(d1, d2, sim)
         IN IF RatGE(sim, Rat(98, 100))
            THEN [flags |-> <<NO_REVISION_FLAG>>,
                  details |-> [overall_similarity |-> sim],
                  revision_score |-> 0]
            ELSE [analysis EXCEPT !.revision_score =
                      @ + (IF SplitLen(d2) > SplitLen(d1) THEN 10 ELSE 0)]

\* a slip that leaves out the early return for identical drafts
compare_drafts_no_early_return(d1, d2) ==
    IF ~Truthy(d1) \/ ~Truthy(d2)
    THEN [flags |-> <<>>, details |-> EmptyDict, revision_score |-> 0]
    ELSE RevisionAnalysis(d1, d2, calculate_text_similarity(d1, d2))

compare_drafts(d1, d2) ==
    IF ~Truthy(d1) \/ ~Truthy(d2)
    THEN [flags |-> <<>>, details |-> EmptyDict, revision_score |-> 0]
    ELSE LET sim == calculate_text_similarity(d1, d2)
         IN IF RatGE(sim, Rat(98, 100))
            THEN [flags |-> <<NO_REVISION_FLAG>>,
                  details |-> [draft1_words |-> SplitLen(d1),
                               draft2_words |-> SplitLen(d2),
                               word_change |-> SplitLen(d2) - SplitLen(d1),
                               word_change_percent |->
                                   IF SplitLen(d1) # 0
                                   THEN Rat((SplitLen(d2) - SplitLen(d1)) * 100, SplitLen(d1))
                                   ELSE Rat(0, 1),
                               overall_similarity |-> sim],
                  revision_score |-> 0]
            ELSE RevisionAnalysis(d1, d2, sim)

-----------------------------------------------------------------------------
(* Inputs *)

\* characters of the enumerated texts: two cases of one letter, another
\* letter and the blank
Alphabet == {"a", "A", "b", " "}

\* texts with the other kinds of whitespace
WhitespaceTexts == {"\n", "\t ", "a\nb", "a\tb", "b\n\na", " a\n", "A\n\nb"}

RECURSIVE TextsOfLen(_)
TextsOfLen(n) ==
    IF n = 0 THEN {""}
    ELSE {s \o c : s \in TextsOfLen(n - 1), c \in Alphabet}

ShortTexts == UNION {TextsOfLen(n) : n \in 0..MaxLen} \cup WhitespaceTexts

\* an Optional[str] argument
TextArgs == ShortTexts \cup {None}

-----------------------------------------------------------------------------
\* numbers of sentences of the generated bodies: they put the word count on
\* both sides of 20, 30, 50 and 100 and the transition count on both sides of 2..5
SentenceCounts == {1, 3, 6, 7, 13}

\* bodies of n sentences each: eight words and a capital; four words and no
\* capital; a transition phrase and one word; a transition phrase and seven
\* words; a complete sentence followed by a fragment
EssayBodies ==
    UNION {{Repeat("A a a a a a a a. ", n),
            Repeat("a a a a. ", n),
            Repeat("However, a. ", n),
            Repeat("Moreover a a a a a a a! ", n),
            Repeat("A a a a a a a a. a a? ", n)} : n \in SentenceCounts}
    \cup {Repeat(". ", 60)}

\* bodies of five sentences longer than 20 characters, of which two pairs
\* (20% of the ten pairs) or three pairs are alike; and bodies of three equal
\* paragraphs, three unequal ones, two equal ones, and four paragraphs of 4, 6,
\* 4 and 6 words (uniformity exactly 0.8)
StructuredBodies ==
    {Repeat("the first point is made here. ", 2) \o Repeat("another claim follows from data. ", 2)
        \o "nobody could doubt such results. ",
     Repeat("the first point is made here. ", 3) \o "another claim follows from data. "
        \o "nobody could doubt such results. ",
     "a a a\n\na a a\n\na a a",
     "a\n\na a a\n\na a a a a",
     "a a a\n\na a a",
     "a a a a\n\na a a a a a\n\na a a a\n\na a a a a a"}

\* short bodies for the sibling pool: empty, blank, and word sets whose
\* similarities are 1, 6/7 (above 0.85), 5/6 and 5/7 (below)
PoolBodies == {"", " ", "a b c d e f", "a b c d e f g", "a b c d e"}

\* every outcome of the regular-expression checks: nothing found, or enough for a flag
RegexOutcomes ==
    [passive_count : {0, 20},
     personal_count : {0, 3},
     organization_flags : {<<>>, <<"Formulaic AI-style introduction">>},
     heading_flags : {<<>>, <<"Numbered section headings (common in AI output)">>},
     prose_flags : {<<>>, <<"Strong evidence: Polished prose submitted as 'notes'">>},
     bibliographic_flags :
         {<<>>, <<"In-text citations present but no References/Works Cited section">>}]

NothingFound ==
    [passive_count |-> 0, personal_count |-> 3, organization_flags |-> <<>>,
     heading_flags |-> <<>>, prose_flags |-> <<>>, bibliographic_flags |-> <<>>]

\* the user_id and the user record of the k-th entry get_submissions returns:
\* the ids are distinct and truthy, every other entry carries a user record
UserId(k) == ToString(10 + k)
UserNames == <<"Ann", "Bob", "Cy", "Dee", "Eve">>

PoolEntry(k, body) ==
    IF k % 2 = 1
    THEN [user_id |-> UserId(k), body |-> body, user |-> [name |-> UserNames[k]]]
    ELSE [user_id |-> UserId(k), body |-> body]

\* sibling pools of short bodies
ShortPools ==
    UNION {{[k \in 1..n |-> PoolEntry(k, bodies[k])] : bodies \in [1..n -> PoolBodies]}
           : n \in 1..MaxPool}

\* a pool of one essay
EssayPools == {<<PoolEntry(1, body)>> : body \in EssayBodies \cup StructuredBodies}

\* a pool of two students who handed in the same rich body, the first with
\* a small, generically named attachment and a URL
RichPools ==
    {<<[user_id |-> UserId(1), body |-> body, user |-> [name |-> UserNames[1]],
        attachments |-> <<[filename |-> "untitled1.docx", size |-> 500]>>,
        url |-> "http://a.b"],
       PoolEntry(2, body)>> : body \in RichBodies}

AttachmentLists ==
    {<<>>,
     <<[filename |-> "untitled1.docx", size |-> 500]>>,
     <<[filename |-> "essay.docx", size |-> 2048]>>,
     <<[filename |-> "notes.txt", size |-> 1023], [filename |-> "Copy of essay.docx", size |-> 1024]>>,
     <<[filename |-> "untitled1.docx", size |-> 500], [filename |-> "Document.pdf", size |-> 1]>>}

\* submissions that carry attachments or a URL
UploadPools ==
    {<<[user_id |-> UserId(1), body |-> body, attachments |-> attachments]>> :
        body \in {"", "a b"}, attachments \in AttachmentLists}
    \cup {<<[user_id |-> UserId(1), body |-> body, attachments |-> attachments, url |-> url]>> :
        body \in {"", "a b"}, attachments \in AttachmentLists, url \in {None, "http://a.b"}}
    \cup {<<[user_id |-> UserId(1), url |-> "http://a.b"]>>, <<[user_id |-> UserId(1)]>>}

\* the bodies analysed in the model
AnalysedBodies == EssayBodies \cup StructuredBodies \cup RichBodies \cup PoolBodies \cup {"a b"}

\* TextChecks over the bodies of the model, evaluated once
TextChecksMemo == [body \in AnalysedBodies |-> TextChecks(body)]

ChecksFor(body) ==
    IF body \in DOMAIN TextChecksMemo THEN TextChecksMemo[body] ELSE TextChecks(body)

\* a slip that leaves the attachment loop inside "if body:"
analyze_submission_attachments_need_body(sub, siblings, outcome) ==
    LET body == DictGet(sub, "body", "")
        attachments == DictGet(sub, "attachments", <<>>)
        url == DictGet(sub, "url", None)
    IN (IF Truthy(body)
        THEN TextFlags(sub, body, siblings, ChecksFor(body), outcome)
             \o (IF NonEmptyList(attachments) THEN AttachmentFlags(attachments) ELSE <<>>)
        ELSE <<>>)
       \o UrlFlags(url, body, attachments)

\* a slip that looks at the attachments first
analyze_submission_attachments_first(sub, siblings, outcome) ==
    LET body == DictGet(sub, "body", "")
        attachments == DictGet(sub, "attachments", <<>>)
        url == DictGet(sub, "url", None)
    IN (IF NonEmptyList(attachments) THEN AttachmentFlags(attachments) ELSE <<>>)
       \o (IF Truthy(body) THEN TextFlags(sub, body, siblings, ChecksFor(body), outcome) ELSE <<>>)
       \o UrlFlags(url, body, attachments)

analyze_submission(sub, siblings, outcome) ==
    LET body == DictGet(sub, "body", "")
        attachments == DictGet(sub, "attachments", <<>>)
        url == DictGet(sub, "url", None)
    IN (IF Truthy(body) THEN TextFlags(sub, body, siblings, ChecksFor(body), outcome) ELSE <<>>)
       \o (IF NonEmptyList(attachments) THEN AttachmentFlags(attachments) ELSE <<>>)
       \o UrlFlags(url, body, attachments)

\* the exception analyze_submission raises for these arguments, or None
analyze_submission_raises(sub, siblings) ==
    LET body == DictGet(sub, "body", "")
        attachments == DictGet(sub, "attachments", <<>>)
    IN IF /\ Truthy(body)
          /\ is_check_enabled("cross_submission")
          /\ ScanRaises(DictGet(sub, "user_id", None), body, siblings, 1)
       THEN "AttributeError"
       ELSE IF NonEmptyList(attachments) /\ AttachmentRaises(attachments)
       THEN "TypeError"
       ELSE None

-----------------------------------------------------------------------------
(* Specification of one call of calculate_text_similarity *)

NoSimilarity == Rat(0, 1)

\* no call of get_profile or is_check_enabled has been made
ProfileIdle ==
    /\ profile_key = None
    /\ returned_profile = EmptyDict
    /\ check_name = None
    /\ check_enabled = TRUE

\* no call of compare_drafts has been made
DraftIdle ==
    /\ draft1 = None
    /\ draft2 = None
    /\ comparison = EmptyDict

\* no call of check_cross_assignment_similarity has been made
CrossIdle ==
    /\ all_data = <<>>
    /\ cross_result = EmptyDict

\* no call of check_bibliographic_markers or verify_citations_batch has been made
BiblioIdle ==
    /\ apa_citations = <<>>
    /\ text_facts = EmptyDict
    /\ verify_citations = FALSE
    /\ lookups = <<>>
    /\ batch_citations = <<>>
    /\ batch_result = EmptyDict
    /\ bib_result = EmptyDict

\* no division was followed
NumericIdle ==
    /\ edge_text1 = None
    /\ edge_text2 = None
    /\ divisors = {}
    /\ edge_value = None

\* a response of requests.post or requests.get: the call raises, or answers
\* with a status code and a body, which is no JSON, a JSON list, or a JSON
\* object with or without the keys "id" and "workflow_state"
Response(raises, status_code, body, id, workflow_state) ==
    [raises |-> raises, status_code |-> status_code, body |-> body, id |-> id,
     workflow_state |-> workflow_state]

Missing == "<missing>"

NoResponse == Response(FALSE, 0, None, Missing, Missing)

\* nothing was posted
PollIdle ==
    /\ job_state = None
    /\ polls = 0
    /\ poll_reply = NoResponse

\* the grader has not run
GradeIdle ==
    /\ enrollments = <<>>
    /\ fetched_submissions = <<>>
    /\ regrade_mode = FALSE
    /\ grade_data = <<>>
    /\ flagged_submissions = <<>>

\* no report has been assembled
ReportIdle ==
    /\ course_assignments = <<>>
    /\ discussion_topics = <<>>
    /\ discussion_data = <<>>
    /\ csv_rows = <<>>

\* no call of analyze_submission has been made
AnalysisIdle ==
    /\ all_submissions = <<>>
    /\ submission = EmptyDict
    /\ found = EmptyDict
    /\ flags = <<>>
    /\ raised = None

\* no call of calculate_text_similarity has been made
SimIdle ==
    /\ text1 = None
    /\ text2 = None
    /\ similarity = NoSimilarity

InitSim ==
    /\ pc = "call"
    /\ CURRENT_PROFILE = None
    /\ text1 \in TextArgs
    /\ text2 \in TextArgs
    /\ similarity = NoSimilarity
    /\ ProfileIdle
    /\ AnalysisIdle
    /\ DraftIdle
    /\ CrossIdle
    /\ ReportIdle
    /\ GradeIdle
    /\ BiblioIdle
    /\ NumericIdle
    /\ PollIdle

CallSimilarity ==
    /\ pc = "call"
    /\ similarity' = calculate_text_similarity(text1, text2)
    /\ pc' = "done"
    /\ UNCHANGED <<CURRENT_PROFILE, text1, text2, profileVars, analysisVars, draftVars, crossVars, reportVars, gradeVars, biblioVars, numericVars, pollVars>>

NextSim == CallSimilarity

SpecSim == InitSim /\ [][NextSim]_vars

\* C1: calculate_text_similarity is symmetric: the value returned for
\* (text1, text2) equals the value the function gives for (text2, text1),
\* for all texts including empty, whitespace-only, case-differing and None.
SimilaritySymmetric ==
    pc = "done" => RatEq(similarity, calculate_text_similarity(text2, text1))

\* two different non-empty texts that share some but not all words
SimilaritySymmetricWitness ==
    /\ pc = "done"
    /\ Truthy(text1) /\ Truthy(text2) /\ text1 # text2
    /\ similarity.num > 0 /\ similarity.num < similarity.den

\* C2: calculate_text_similarity is reflexive on non-empty input: a non-empty
\* text (also one made only of whitespace) compared with itself gives 1.0.
SimilarityReflexive ==
    (pc = "done" /\ Truthy(text1) /\ text1 = text2) => similarity = Rat(1, 1)

\* a whitespace-only text compared with itself
SimilarityReflexiveWitness ==
    /\ pc = "done"
    /\ Truthy(text1) /\ text1 = text2 /\ Strip(text1) = ""
    /\ similarity = Rat(1, 1)

\* C3: calculate_text_similarity returns 0.0 whenever either input is empty
\* or None; otherwise the result lies in [0,1], is 1.0 when the trimmed
\* lowercase strings are equal and is |intersection| / |union| of the two
\* lowercase whitespace-token sets when they are not.
SimilarityContract ==
    pc = "done" =>
        IF ~Truthy(text1) \/ ~Truthy(text2) THEN similarity = Rat(0, 1)
        ELSE LET tokens1 == SplitSet(Lower(text1))
                 tokens2 == SplitSet(Lower(text2))
             IN /\ similarity.den > 0
                /\ 0 <= similarity.num /\ similarity.num <= similarity.den
                /\ IF Strip(Lower(text1)) = Strip(Lower(text2))
                   THEN RatEq(similarity, Rat(1, 1))
                   ELSE /\ tokens1 \cup tokens2 # {}
                        /\ RatEq(similarity, Rat(Cardinality(tokens1 \cap tokens2),
                                                 Cardinality(tokens1 \cup tokens2)))

\* None against a non-empty text, and a non-empty text against the empty one
SimilarityContractWitness ==
    /\ pc = "done"
    /\ text1 = None /\ Truthy(text2)
    /\ similarity = Rat(0, 1)

-----------------------------------------------------------------------------
(* Specification of the profile lookups around main's profile selection *)

\* keys handed to get_profile: the defined names and some that are not defined
ProfileKeyArgs == SelectableProfiles \cup {"essay", "Standard", "", None}

\* names handed to is_check_enabled: those analyze_submission asks for and an unknown one
CheckNameArgs ==
    {"ai_transitions", "hedge_phrases", "inflated_vocabulary", "generic_phrases",
     "balance_markers", "passive_voice", "personal_markers", "emotional_markers",
     "complete_sentences", "copy_paste", "essay_organization", "headings_structure",
     "paragraph_structure", "cross_submission", "spelling"}

InitProfile ==
    /\ pc = "start"
    /\ CURRENT_PROFILE = None
    /\ SimIdle
    /\ ProfileIdle
    /\ AnalysisIdle
    /\ DraftIdle
    /\ CrossIdle
    /\ ReportIdle
    /\ GradeIdle
    /\ BiblioIdle
    /\ NumericIdle
    /\ PollIdle

\* main: CURRENT_PROFILE = select_assignment_profile(), executed once
SelectProfile ==
    /\ pc = "start"
    /\ CURRENT_PROFILE = None
    /\ \E key \in SelectableProfiles : CURRENT_PROFILE' = key
    /\ pc' = "select_assignment_profile"
    /\ UNCHANGED <<simVars, profileVars, analysisVars, draftVars, crossVars, reportVars, gradeVars, biblioVars, numericVars, pollVars>>

CallGetProfile ==
    /\ \E key \in ProfileKeyArgs :
          /\ profile_key' = key
          /\ returned_profile' = get_profile(key)
    /\ pc' = "get_profile"
    /\ UNCHANGED <<CURRENT_PROFILE, simVars, check_name, check_enabled, analysisVars, draftVars, crossVars, reportVars, gradeVars, biblioVars, numericVars, pollVars>>

CallIsCheckEnabled ==
    /\ \E name \in CheckNameArgs :
          /\ check_name' = name
          /\ check_enabled' = is_check_enabled(name)
    /\ pc' = "is_check_enabled"
    /\ UNCHANGED <<CURRENT_PROFILE, simVars, profile_key, returned_profile, analysisVars, draftVars, crossVars, reportVars, gradeVars, biblioVars, numericVars, pollVars>>

NextProfile == SelectProfile \/ CallGetProfile \/ CallIsCheckEnabled

SpecProfile == InitProfile /\ [][NextProfile]_vars

\* the names ASSIGNMENT_PROFILES defines
DefinedProfileNames ==
    {"notes_brainstorm", "rough_draft", "personal_reflection", "discussion_post",
     "analytical_essay", "research_paper", "creative_writing", "standard"}

\* C4: get_profile never fails: for a key that is not a defined profile name
\* it returns the "standard" profile, for a defined name that profile.
GetProfileFallsBack ==
    pc = "get_profile" =>
        returned_profile = IF profile_key \in DefinedProfileNames
                           THEN ASSIGNMENT_PROFILES[profile_key]
                           ELSE ASSIGNMENT_PROFILES["standard"]

\* an undefined key answered with the standard profile
GetProfileFallsBackWitness ==
    /\ pc = "get_profile"
    /\ profile_key \notin DefinedProfileNames
    /\ returned_profile = PROFILE_standard

\* C5: is_check_enabled is fail-open: True when no profile is current and
\* when the current profile's checks_enabled has no entry for the name; False
\* only when the current profile maps the name to False.
IsCheckEnabledFailOpen ==
    pc = "is_check_enabled" =>
        LET checks == IF CURRENT_PROFILE = None THEN EmptyDict
                      ELSE ASSIGNMENT_PROFILES[CURRENT_PROFILE].checks_enabled
        IN /\ CURRENT_PROFILE = None => check_enabled
           /\ check_name \notin DOMAIN checks => check_enabled
           /\ ~check_enabled => /\ CURRENT_PROFILE # None
                                /\ check_name \in DOMAIN checks
                                /\ checks[check_name] = FALSE
           /\ (check_name \in DOMAIN checks /\ checks[check_name] = FALSE) => ~check_enabled

\* a check the rough-draft profile does not list is reported enabled
IsCheckEnabledFailOpenWitness ==
    /\ pc = "is_check_enabled"
    /\ CURRENT_PROFILE = "rough_draft"
    /\ check_name = "essay_organization"
    /\ check_enabled

-----------------------------------------------------------------------------
(* Specification of a batch of analyses over one sibling pool *)

InitAnalyze ==
    /\ pc = "start"
    /\ CURRENT_PROFILE = None
    /\ SimIdle
    /\ ProfileIdle
    /\ \/ all_submissions \in EssayPools \cup RichPools /\ found \in RegexOutcomes
       \/ all_submissions \in ShortPools \cup UploadPools /\ found = NothingFound
    /\ submission = EmptyDict
    /\ flags = <<>>
    /\ raised = None
    /\ DraftIdle
    /\ CrossIdle
    /\ ReportIdle
    /\ GradeIdle
    /\ BiblioIdle
    /\ NumericIdle
    /\ PollIdle

\* a slip in which an analysis falls back to the standard profile for the
\* analyses after it
Analyze_resets_profile ==
    /\ \E k \in 1..Len(all_submissions) :
          LET exception == analyze_submission_raises(all_submissions[k], all_submissions)
          IN /\ submission' = all_submissions[k]
             /\ raised' = exception
             /\ flags' = IF exception = None
                         THEN analyze_submission(all_submissions[k], all_submissions, found)
                         ELSE <<>>
    /\ pc' = "analyze_submission"
    /\ CURRENT_PROFILE' = "standard"
    /\ UNCHANGED <<simVars, profileVars, all_submissions, found, draftVars, crossVars, reportVars, gradeVars, biblioVars, numericVars, pollVars>>

\* analyze_assignment: flags = analyze_submission(submission, all_submissions_list)
\* for a submission of the pool
Analyze ==
    /\ \E k \in 1..Len(all_submissions) :
          LET exception == analyze_submission_raises(all_submissions[k], all_submissions)
          IN /\ submission' = all_submissions[k]
             /\ raised' = exception
             /\ flags' = IF exception = None
                         THEN analyze_submission(all_submissions[k], all_submissions, found)
                         ELSE <<>>
    /\ pc' = "analyze_submission"
    /\ UNCHANGED <<CURRENT_PROFILE, simVars, profileVars, all_submissions, found, draftVars, crossVars, reportVars, gradeVars, biblioVars, numericVars, pollVars>>

NextAnalyze == SelectProfile \/ Analyze

SpecAnalyze == InitAnalyze /\ [][NextAnalyze]_vars

\* the flags of a list that start with a given text
FlagsWith(fl, prefix) == {k \in 1..Len(fl) : StartsWith(fl[k], prefix)}

\* the body of the submission under analysis
Body == DictGet(submission, "body", "")

\* the current profile has a checks_enabled entry for the name, mapped to FALSE
SwitchedOff(name) ==
    /\ CURRENT_PROFILE # None
    /\ name \in DOMAIN ASSIGNMENT_PROFILES[CURRENT_PROFILE].checks_enabled
    /\ ASSIGNMENT_PROFILES[CURRENT_PROFILE].checks_enabled[name] = FALSE

\* C6: when the current profile has checks_enabled["ai_transitions"] = False,
\* analyze_submission never appends a "Cliched transitions" flag, however many
\* transition phrases the body holds.
NoTransitionFlagWhenDisabled ==
    (pc = "analyze_submission" /\ SwitchedOff("ai_transitions"))
        => FlagsWith(flags, "Cliched transitions") = {}

\* a body with thirteen transition phrases analysed under the notes profile
NoTransitionFlagWhenDisabledWitness ==
    /\ pc = "analyze_submission"
    /\ CURRENT_PROFILE = "notes_brainstorm"
    /\ Truthy(Body)
    /\ Count(Lower(Body), "however") >= 13
    /\ FlagsWith(flags, "Cliched transitions") = {}

\* the name a flag gives to a pool entry
NameOf(entry) ==
    IF "user" \in DOMAIN entry /\ "name" \in DOMAIN entry.user
    THEN entry.user.name
    ELSE "User " \o entry.user_id

\* the pool holds exactly two submissions, of two students, with identical bodies
IdenticalPair ==
    /\ Len(all_submissions) = 2
    /\ all_submissions[1].user_id # all_submissions[2].user_id
    /\ all_submissions[1].body = all_submissions[2].body

\* the entry of a pool of two that is not the submission under analysis
OtherOfPair ==
    IF all_submissions[1].user_id = submission.user_id
    THEN all_submissions[2] ELSE all_submissions[1]

ExactlyOneFlagNamingOther ==
    /\ Cardinality(FlagsWith(flags, "Highly similar to ")) = 1
    /\ FlagsWith(flags, "Highly similar to " \o NameOf(OtherOfPair) \o "'s submission") # {}

\* C7 as claimed: for a pool of two submissions with identical bodies from two
\* different students, the analysis of either returns exactly one "Highly
\* similar to" flag, naming the other student.
IdenticalPairFlagged ==
    (pc = "analyze_submission" /\ IdenticalPair) => ExactlyOneFlagNamingOther

\* C7 as amended: the same for identical bodies that are not empty.
IdenticalNonEmptyPairFlagged ==
    (pc = "analyze_submission" /\ IdenticalPair /\ all_submissions[1].body # "")
        => ExactlyOneFlagNamingOther

\* the second of two identical non-empty submissions, flagged with the first one's name
IdenticalNonEmptyPairFlaggedWitness ==
    /\ pc = "analyze_submission"
    /\ IdenticalPair
    /\ all_submissions[1].body = "a b c d e f"
    /\ submission = all_submissions[2]
    /\ flags = <<"Very short text (6 words)", "Highly similar to Ann's submission (100% match)">>

\* the pool entries of other students whose body reaches the threshold against Body
Matches ==
    {k \in 1..Len(all_submissions) :
        /\ all_submissions[k].user_id # submission.user_id
        /\ "body" \in DOMAIN all_submissions[k]
        /\ Truthy(all_submissions[k].body)
        /\ RatGE(SimilarityOf(Body, all_submissions[k].body), Rat(85, 100))}

\* C8: analyze_submission appends at most one "Highly similar" flag per call:
\* the scan takes the pool in list order, skips entries of the same user_id and
\* stops at the first sibling that reaches 0.85, which is the one the flag names.
AtMostOneSimilarFlag ==
    pc = "analyze_submission" =>
        LET similar == FlagsWith(flags, "Highly similar to ")
        IN /\ Cardinality(similar) <= 1
           /\ (Truthy(Body) /\ Matches # {}) =>
                 LET first == all_submissions[Min(Matches)]
                 IN similar = FlagsWith(flags, "Highly similar to " \o NameOf(first)
                                                   \o "'s submission")
                    /\ similar # {}
           /\ (~Truthy(Body) \/ Matches = {}) => similar = {}

\* two siblings reach the threshold and one flag is returned
AtMostOneSimilarFlagWitness ==
    /\ pc = "analyze_submission"
    /\ Truthy(Body)
    /\ Cardinality(Matches) >= 2
    /\ Cardinality(FlagsWith(flags, "Highly similar to ")) = 1

\* the current profile inverts the complete-sentences check
Inverted ==
    /\ CURRENT_PROFILE # None
    /\ "invert_checks" \in DOMAIN ASSIGNMENT_PROFILES[CURRENT_PROFILE]
    /\ "complete_sentences" \in DOMAIN ASSIGNMENT_PROFILES[CURRENT_PROFILE].invert_checks
    /\ ASSIGNMENT_PROFILES[CURRENT_PROFILE].invert_checks.complete_sentences = TRUE

\* the text has sentences and each has eight words or more and starts with a capital
AllSentencesComplete(text) ==
    /\ SentenceRuns(text) # {}
    /\ \A r \in SentenceRuns(text) :
          LET sentence == Strip(SubSeq(text, r[1], r[2]))
          IN SplitLen(sentence) >= 8 /\ IsUpper(CharAt(sentence, 1))

\* C9: under a profile with invert_checks["complete_sentences"] = True, a body
\* whose sentences are all complete and whose word count is > 50 gets the "Too
\* polished for notes" flag and not the "Suspiciously polished" flag; under a
\* profile without that inversion "Too polished for notes" is never emitted.
NotesGetInvertedFlag ==
    pc = "analyze_submission" =>
        /\ (Inverted /\ Truthy(Body) /\ AllSentencesComplete(Body) /\ SplitLen(Body) > 50)
              => /\ FlagsWith(flags, "Too polished for notes") # {}
                 /\ FlagsWith(flags, "Suspiciously polished") = {}
        /\ ~Inverted => FlagsWith(flags, "Too polished for notes") = {}

\* seven complete sentences, 56 words, under the notes profile
NotesGetInvertedFlagWitness ==
    /\ pc = "analyze_submission"
    /\ CURRENT_PROFILE = "notes_brainstorm"
    /\ Truthy(Body) /\ AllSentencesComplete(Body)
    /\ SplitLen(Body) = 56
    /\ FlagsWith(flags, "Too polished for notes (100% complete sentences") # {}

-----------------------------------------------------------------------------
(* Specification of one call of compare_drafts *)

LongDrafts == {NumberedWords(n) : n \in {19, 20, 39, 40, 49, 50}}

\* the sentences "<stem>a. " .. "<stem>b. ", one word each
RECURSIVE NumberedSentences(_, _, _)
NumberedSentences(stem, a, b) ==
    IF a > b THEN ""
    ELSE NumberedSentences(stem, a, b - 1) \o stem \o ToString(b) \o ". "

\* drafts that differ in one sentence of 21 added, in two of 21, in four of
\* 22, and drafts of 10 and 20 words longer than four characters
RevisionDrafts ==
    {NumberedSentences("s", 1, 20), NumberedSentences("s", 1, 21),
     NumberedSentences("s", 2, 21), NumberedSentences("s", 3, 22),
     NumberedSentences("word", 1, 10), NumberedSentences("word", 1, 20)}

DraftArgs == TextArgs \cup LongDrafts \cup RevisionDrafts

InitDrafts ==
    /\ pc = "call"
    /\ CURRENT_PROFILE = None
    /\ SimIdle
    /\ ProfileIdle
    /\ AnalysisIdle
    /\ draft1 \in DraftArgs
    /\ draft2 \in DraftArgs
    /\ comparison = EmptyDict
    /\ CrossIdle
    /\ ReportIdle
    /\ GradeIdle
    /\ BiblioIdle
    /\ NumericIdle
    /\ PollIdle

CallCompareDrafts ==
    /\ pc = "call"
    /\ comparison' = compare_drafts(draft1, draft2)
    /\ pc' = "compare_drafts"
    /\ UNCHANGED <<CURRENT_PROFILE, simVars, profileVars, analysisVars, draft1, draft2, crossVars, reportVars, gradeVars, biblioVars, numericVars, pollVars>>

NextDrafts == CallCompareDrafts

SpecDrafts == InitDrafts /\ [][NextDrafts]_vars

\* the flag list contains the critical no-revision flag
HasNoRevisionFlag ==
    \E k \in 1..Len(comparison.flags) :
        comparison.flags[k] = "CRITICAL: Drafts are essentially identical - no revision occurred"

\* similarity >= 0.98 gives revision_score 0 and the critical flag as the only flag
NearIdenticalDraftsScoreZero ==
    (pc = "compare_drafts"
        /\ RatGE(calculate_text_similarity(draft1, draft2), Rat(98, 100)))
    => /\ comparison.revision_score = 0
       /\ Len(comparison.flags) = 1
       /\ HasNoRevisionFlag

\* C10 as claimed: compare_drafts(text, text) returns revision_score 0 and a
\* flag list that contains the "no revision occurred" critical flag, and
\* similarity >= 0.98 gives revision_score 0 and exactly that one flag.
SameDraftNoRevision ==
    /\ (pc = "compare_drafts" /\ draft1 = draft2)
          => comparison.revision_score = 0 /\ HasNoRevisionFlag
    /\ NearIdenticalDraftsScoreZero

\* C10 as amended: the same for a text that is not empty (compare_drafts
\* returns no flag at all when a draft is empty or None).
SameNonEmptyDraftNoRevision ==
    /\ (pc = "compare_drafts" /\ draft1 = draft2 /\ Truthy(draft1))
          => comparison.revision_score = 0 /\ HasNoRevisionFlag
    /\ NearIdenticalDraftsScoreZero

\* two different drafts of 50 and 49 words, similarity 0.98, get the critical flag alone
SameNonEmptyDraftNoRevisionWitness ==
    /\ pc = "compare_drafts"
    /\ draft1 # draft2
    /\ calculate_text_similarity(draft1, draft2) = Rat(49, 50)
    /\ comparison.revision_score = 0
    /\ comparison.flags = <<NO_REVISION_FLAG>>

-----------------------------------------------------------------------------
(* check_cross_assignment_similarity *)

\* A dict is kept here as the sequence of its <<key, value>> items in
\* insertion order, which is the order Python iterates it in.

\* number of assignments of a course
MaxAssignments == 2

\* a slip that lets a text of exactly 50 words through
Substantial_from_50(text) == Truthy(text) /\ WordCountOf(text) >= 50

\* if text and len(text.split()) > 50
Substantial(text) == Truthy(text) /\ WordCountOf(text) > 50

\* the substantial items of one assignment's submission_texts, as <<user_id, assignment_id, text>>
RECURSIVE KeptTexts(_, _)
KeptTexts(assignment_id, texts) ==
    IF texts = <<>> THEN <<>>
    ELSE (IF Substantial(texts[1][2])
          THEN << <<texts[1][1], assignment_id, texts[1][2]>> >> ELSE <<>>)
         \o KeptTexts(assignment_id, Tail(texts))

\* the same for all of all_data, in iteration order
RECURSIVE KeptAll(_)
KeptAll(data) ==
    IF data = <<>> THEN <<>>
    ELSE KeptTexts(data[1][1], DictGet(data[1][2], "submission_texts", <<>>))
         \o KeptAll(Tail(data))

\* the keys of student_submissions in insertion order
RECURSIVE FirstSeen(_, _)
FirstSeen(kept, seen) ==
    IF kept = <<>> THEN <<>>
    ELSE IF kept[1][1] \in seen THEN FirstSeen(Tail(kept), seen)
    ELSE <<kept[1][1]>> \o FirstSeen(Tail(kept), seen \cup {kept[1][1]})

\* student_submissions[user_id], as items <<assignment_id, text>>
RECURSIVE AssignmentsOf(_, _)
AssignmentsOf(kept, user_id) ==
    IF kept = <<>> THEN <<>>
    ELSE (IF kept[1][1] = user_id THEN << <<kept[1][2], kept[1][3]>> >> ELSE <<>>)
         \o AssignmentsOf(Tail(kept), user_id)

\* student_submissions: items <<user_id, items <<assignment_id, text>>>>
student_submissions(data) ==
    LET kept == KeptAll(data)
        users == FirstSeen(kept, {})
    IN [k \in 1..Len(users) |-> <<users[k], AssignmentsOf(kept, users[k])>>]

\* the index pairs of "for i in range(n): for j in range(i + 1, n)", in loop order
RECURSIVE PairsFrom(_, _, _)
PairsFrom(i, j, n) ==
    IF i >= n THEN <<>>
    ELSE IF j > n THEN PairsFrom(i + 1, i + 2, n)
    ELSE << <<i, j>> >> \o PairsFrom(i, j + 1, n)

IndexPairs(n) == PairsFrom(1, 2, n)

\* all_data[assignment_id]["name"]
AssignmentName(data, assignment_id) ==
    LET k == CHOOSE k \in 1..Len(data) : data[k][1] = assignment_id
    IN data[k][2].name

\* similar_pairs of one student
RECURSIVE SimilarPairs(_, _, _)
SimilarPairs(data, assignments, pairs) ==
    IF pairs = <<>> THEN <<>>
    ELSE LET a1 == assignments[pairs[1][1]]
             a2 == assignments[pairs[1][2]]
             sim == SimilarityOf(a1[2], a2[2])
         IN (IF RatGE(sim, Rat(7, 10))
             THEN <<[assignment1 |-> AssignmentName(data, a1[1]),
                     assignment1_id |-> a1[1],
                     assignment2 |-> AssignmentName(data, a2[1]),
                     assignment2_id |-> a2[1],
                     similarity |-> sim]>>
             ELSE <<>>)
            \o SimilarPairs(data, assignments, Tail(pairs))

\* the self_plagiarism dict: user_id -> similar_pairs, for the users that have any
SelfPlagiarism(data) ==
    LET students == student_submissions(data)
        pairs == [k \in 1..Len(students) |->
                     SimilarPairs(data, students[k][2], IndexPairs(Len(students[k][2])))]
        reusing == {k \in 1..Len(students) : pairs[k] # <<>>}
    IN [user_id \in {students[k][1] : k \in reusing} |->
           pairs[CHOOSE k \in reusing : students[k][1] = user_id]]

\* the list of (user_id, assignment_id, text) the second check compares
RECURSIVE Flatten(_)
Flatten(students) ==
    IF students = <<>> THEN <<>>
    ELSE [k \in 1..Len(students[1][2]) |->
             <<students[1][1], students[1][2][k][1], students[1][2][k][2]>>]
         \o Flatten(Tail(students))

\* tuple(sorted([p, q])) for two (user_id, assignment_id) tuples
SortedPair(p, q) ==
    IF p[1] < q[1] \/ (p[1] = q[1] /\ p[2] <= q[2]) THEN <<p, q>> ELSE <<q, p>>

\* a slip that skips the pairs of one student only
SkipPair_same_student_only(s1, s2) == s1[1] = s2[1]

\* if user1 == user2 or aid1 == aid2: continue
SkipPair(s1, s2) == s1[1] = s2[1] \/ s1[2] = s2[2]

\* the double loop of the second check; acc holds checked_pairs, the list
\* built so far and the pair keys calculate_text_similarity was called for
RECURSIVE CrossScan(_, _, _, _, _)
CrossScan(data, student_names, subs, pairs, acc) ==
    IF pairs = <<>> THEN acc
    ELSE LET s1 == subs[pairs[1][1]]
             s2 == subs[pairs[1][2]]
             pair_key == SortedPair(<<s1[1], s1[2]>>, <<s2[1], s2[2]>>)
             sim == SimilarityOf(s1[3], s2[3])
         IN IF SkipPair(s1, s2) \/ pair_key \in acc.checked_pairs
            THEN CrossScan(data, student_names, subs, Tail(pairs), acc)
            ELSE CrossScan(data, student_names, subs, Tail(pairs),
                   [checked_pairs |-> acc.checked_pairs \cup {pair_key},
                    comparisons |-> Append(acc.comparisons, pair_key),
                    cross_student_plagiarism |->
                        acc.cross_student_plagiarism \o
                        (IF RatGE(sim, Rat(75, 100))
                         THEN <<[student1 |-> DictGet(student_names, s1[1], "User " \o ToString(s1[1])),
                                 student1_id |-> s1[1],
                                 assignment1 |-> AssignmentName(data, s1[2]),
                                 assignment1_id |-> s1[2],
                                 student2 |-> DictGet(student_names, s2[1], "User " \o ToString(s2[1])),
                                 student2_id |-> s2[1],
                                 assignment2 |-> AssignmentName(data, s2[2]),
                                 assignment2_id |-> s2[2],
                                 similarity |-> sim]>>
                         ELSE <<>>)])

check_cross_assignment_similarity(data, student_names) ==
    LET subs == Flatten(student_submissions(data))
        scan == CrossScan(data, student_names, subs, IndexPairs(Len(subs)),
                          [checked_pairs |-> {}, comparisons |-> <<>>,
                           cross_student_plagiarism |-> <<>>])
    IN [self_plagiarism |-> SelfPlagiarism(data),
        cross_student_plagiarism |-> scan.cross_student_plagiarism,
        comparisons |-> scan.comparisons]

-----------------------------------------------------------------------------
(* Specification of one call of check_cross_assignment_similarity *)

CrossUsers == {11, 12}

AssignmentIds == {100 + k : k \in 1..MaxAssignments}

\* student_names_global as main builds it: a name for every user of a submission
CrossStudentNames == [user_id \in CrossUsers |-> IF user_id = 11 THEN "Ann" ELSE "User 12"]

\* the orders of a set's elements
Orders(S) ==
    {q \in [1..Cardinality(S) -> S] : \A i, j \in 1..Cardinality(S) : i # j => q[i] # q[j]}

\* submission_texts as analyze_assignment builds it: the students in list
\* order, those left out whose body is empty
RECURSIVE SubmissionTexts(_, _)
SubmissionTexts(students, bodies) ==
    IF students = <<>> THEN <<>>
    ELSE (IF Truthy(bodies[students[1]])
          THEN << <<students[1], bodies[students[1]]>> >> ELSE <<>>)
         \o SubmissionTexts(Tail(students), bodies)

\* all_data as main builds it from the assignments in list order
AllData(assignments, students, bodies) ==
    [k \in 1..Len(assignments) |->
        <<assignments[k],
          [name |-> "Assignment " \o ToString(assignments[k]),
           submission_texts |-> SubmissionTexts(students, bodies[assignments[k]])]>>]

InitCross ==
    /\ pc = "call"
    /\ CURRENT_PROFILE = None
    /\ SimIdle
    /\ ProfileIdle
    /\ AnalysisIdle
    /\ DraftIdle
    /\ \E assignments \in Orders(AssignmentIds), students \in Orders(CrossUsers) :
        \E bodies \in [AssignmentIds -> [CrossUsers -> CrossTexts \cup {None}]] :
            all_data = AllData(assignments, students, bodies)
    /\ cross_result = EmptyDict
    /\ ReportIdle
    /\ GradeIdle
    /\ BiblioIdle
    /\ NumericIdle
    /\ PollIdle

CallCrossAssignment ==
    /\ pc = "call"
    /\ all_data # <<>>
    /\ cross_result' = check_cross_assignment_similarity(all_data, CrossStudentNames)
    /\ pc' = "check_cross_assignment_similarity"
    /\ UNCHANGED <<CURRENT_PROFILE, simVars, profileVars, analysisVars, draftVars, all_data, reportVars, gradeVars, biblioVars, numericVars, pollVars>>

NextCross == CallCrossAssignment

SpecCross == InitCross /\ [][NextCross]_vars

\* the texts all_data holds for a student, as <<assignment_id, text>>
TextsOfStudent(user_id) ==
    UNION {{<<all_data[k][1], all_data[k][2].submission_texts[i][2]>> :
               i \in {i \in 1..Len(all_data[k][2].submission_texts) :
                         all_data[k][2].submission_texts[i][1] = user_id}} :
           k \in 1..Len(all_data)}

\* the student has two submissions in different assignments, each of more
\* than 50 words, with similarity >= 0.70
ReusesOwnWork(user_id) ==
    \E s1, s2 \in TextsOfStudent(user_id) :
        /\ s1[1] # s2[1]
        /\ WordCountOf(s1[2]) > 50
        /\ WordCountOf(s2[2]) > 50
        /\ RatGE(SimilarityOf(s1[2], s2[2]), Rat(70, 100))

\* C11: a student is in the self-plagiarism map if and only if the student has
\* two submissions in different assignments, each of more than 50 words, with
\* similarity >= 0.70; a student whose submissions all have fewer than 50
\* words is absent from the map whatever their similarity.
SelfPlagiarismMap ==
    pc = "check_cross_assignment_similarity" =>
        \A user_id \in CrossUsers :
            /\ (user_id \in DOMAIN cross_result.self_plagiarism) <=> ReusesOwnWork(user_id)
            /\ (\A s \in TextsOfStudent(user_id) : WordCountOf(s[2]) < 50)
                   => user_id \notin DOMAIN cross_result.self_plagiarism

\* student 11 is in the map for two texts of similarity 51/69, student 12 is
\* not although both texts of that student are the same 50 words
SelfPlagiarismMapWitness ==
    /\ pc = "check_cross_assignment_similarity"
    /\ DOMAIN cross_result.self_plagiarism = {11}
    /\ cross_result.self_plagiarism[11][1].similarity = Rat(51, 69)
    /\ \E s1, s2 \in TextsOfStudent(12) :
          s1[1] # s2[1] /\ s1[2] = s2[2] /\ WordCountOf(s1[2]) = 50

\* the text all_data holds for a student and an assignment
SubmittedText(user_id, assignment_id) ==
    (CHOOSE s \in TextsOfStudent(user_id) : s[1] = assignment_id)[2]

\* the two (student, assignment) submissions an entry of the list relates
Related(entry) ==
    {<<entry.student1_id, entry.assignment1_id>>, <<entry.student2_id, entry.assignment2_id>>}

\* C12: every entry of the cross-student list relates two submissions of
\* different students and different assignments with similarity >= 0.75, and
\* each unordered pair of (student, assignment) submissions is compared and
\* reported at most once, in whatever order the submissions were collected.
CrossStudentEntries ==
    pc = "check_cross_assignment_similarity" =>
        LET list == cross_result.cross_student_plagiarism
            compared == cross_result.comparisons
        IN /\ \A k \in 1..Len(list) :
                /\ list[k].student1_id # list[k].student2_id
                /\ list[k].assignment1_id # list[k].assignment2_id
                /\ RatGE(list[k].similarity, Rat(75, 100))
                /\ list[k].similarity =
                       SimilarityOf(SubmittedText(list[k].student1_id, list[k].assignment1_id),
                                    SubmittedText(list[k].student2_id, list[k].assignment2_id))
           /\ \A k1, k2 \in 1..Len(list) : k1 # k2 => Related(list[k1]) # Related(list[k2])
           /\ \A k1, k2 \in 1..Len(compared) :
                k1 # k2 => {compared[k1][1], compared[k1][2]} # {compared[k2][1], compared[k2][2]}

\* both crossed pairs of two students and two assignments are reported, the
\* assignments and the students having been collected in descending order
CrossStudentEntriesWitness ==
    /\ pc = "check_cross_assignment_similarity"
    /\ Len(cross_result.cross_student_plagiarism) >= 2
    /\ Len(cross_result.comparisons) >= 2
    /\ all_data[1][1] > all_data[2][1]
    /\ all_data[1][2].submission_texts[1][1] = 12
    /\ cross_result.cross_student_plagiarism[1].student1_id = 12

-----------------------------------------------------------------------------
(* Order of the flags of analyze_submission *)

\* the attachments of the submission under analysis
Attachments == DictGet(submission, "attachments", <<>>)

\* the indices of a flag list that hold a given flag
IndicesOf(fl, flag) == {k \in 1..Len(fl) : fl[k] = flag}

SmallFileFlag(file) ==
    "Small file '" \o file.filename \o "' (" \o ToString(file.size) \o " bytes)"

GenericFilenameFlag(file) == "Generic filename: '" \o file.filename \o "'"

\* the indices of the flags about one attachment
FlagsAbout(file) ==
    IndicesOf(flags, SmallFileFlag(file)) \cup IndicesOf(flags, GenericFilenameFlag(file))

\* an attachment with a file name and a size, as Canvas sends it
Described(file) ==
    /\ DOMAIN file = {"filename", "size"}
    /\ file.filename # None
    /\ ~IsNone(file.size)

\* C13: attachments are processed in list order and for each attachment the
\* "Small file" flag (0 < size < 1024) comes before that attachment's "Generic
\* filename" flag; {filename: "untitled1.docx", size: 500} gets both flags in
\* that order under every profile.
AttachmentFlagOrder ==
    (pc = "analyze_submission" /\ NonEmptyList(Attachments)
        /\ \A k \in 1..Len(Attachments) : Described(Attachments[k]))
    => /\ \A k \in 1..Len(Attachments) :
            \A i \in IndicesOf(flags, SmallFileFlag(Attachments[k])),
               j \in IndicesOf(flags, GenericFilenameFlag(Attachments[k])) : i < j
       /\ \A k1, k2 \in 1..Len(Attachments) :
            k1 < k2 => \A i \in FlagsAbout(Attachments[k1]), j \in FlagsAbout(Attachments[k2]) : i < j
       /\ \A k \in 1..Len(Attachments) :
            Attachments[k] = [filename |-> "untitled1.docx", size |-> 500]
            => \E i \in 1..(Len(flags) - 1) :
                  /\ flags[i] = "Small file 'untitled1.docx' (500 bytes)"
                  /\ flags[i + 1] = "Generic filename: 'untitled1.docx'"

\* under the notes profile, two attachments that are both small and
\* generically named give four flags, attachment by attachment
AttachmentFlagOrderWitness ==
    /\ pc = "analyze_submission"
    /\ CURRENT_PROFILE = "notes_brainstorm"
    /\ Len(Attachments) = 2
    /\ flags = <<"Small file 'untitled1.docx' (500 bytes)", "Generic filename: 'untitled1.docx'",
                 "Small file 'Document.pdf' (1 bytes)", "Generic filename: 'Document.pdf'">>

\* the elements of a list
Range(list) == {list[k] : k \in 1..Len(list)}

\* the texts that the flags of each check start with, in check-evaluation
\* order; the flags of checks 14 to 17 are those the checks on prose return
FlagPrefixes ==
    <<{"Very short text ("},
      {"Cliched transitions ("},
      {"Excessive hedging ("},
      {"Inflated vocabulary: "},
      {"Generic/vague content ("},
      {"Over-balanced/false equivalence ("},
      {"Excessive passive voice ("},
      {"Lacks personal/embodied language"},
      {"No emotional/vulnerable language"},
      {"Suspiciously uniform paragraphs"},
      {"Repetitive/circular reasoning detected"},
      {"Copy-paste indicators: "},
      {"Suspiciously polished (", "Too polished for notes ("},
      Range(found.organization_flags),
      Range(found.heading_flags),
      Range(found.prose_flags),
      Range(found.bibliographic_flags),
      {"Highly similar to "},
      {"Small file '", "Generic filename: '"},
      {"URL with no description"}>>

\* the checks a flag can come from
ChecksOf(flag) ==
    {n \in 1..Len(FlagPrefixes) : \E prefix \in FlagPrefixes[n] : StartsWith(flag, prefix)}

\* C14: the flag list is in check-evaluation order: short text, transitions,
\* hedging, inflated vocabulary, generic content, balance markers, passive
\* voice, personal markers, emotional markers, uniform paragraphs, repetitive
\* reasoning, copy-paste, sentence completeness, essay organization, headings,
\* prose-in-notes, bibliographic, cross-submission similarity, attachments,
\* URL; no flag of a later check precedes a flag of an earlier check.
FlagsInCheckOrder ==
    pc = "analyze_submission" =>
        /\ \A k \in 1..Len(flags) : Cardinality(ChecksOf(flags[k])) = 1
        /\ \A i, j \in 1..Len(flags) :
              i < j => \A m \in ChecksOf(flags[i]), n \in ChecksOf(flags[j]) : m <= n

\* a list of fourteen flags, from transitions down to the attachment
FlagsInCheckOrderWitness ==
    /\ pc = "analyze_submission"
    /\ Len(flags) = 14
    /\ UNION {ChecksOf(flags[k]) : k \in 1..Len(flags)}
          = {2, 3, 5, 7, 9, 11, 12, 13, 14, 15, 17, 18, 19}

\* C15: when the body is empty or absent, no text check runs (the
\* cross-submission scan included) and the list holds only attachment flags
\* and the URL flag; the attachment and URL checks still run.
EmptyBodySkipsTextChecks ==
    (pc = "analyze_submission" /\ raised = None /\ ~Truthy(Body))
    => /\ \A k \in 1..Len(flags) : ChecksOf(flags[k]) \subseteq {19, 20}
       /\ NonEmptyList(Attachments) =>
            \A k \in 1..Len(Attachments) :
                Described(Attachments[k]) =>
                    /\ (Attachments[k].size > 0 /\ Attachments[k].size < 1024)
                           <=> IndicesOf(flags, SmallFileFlag(Attachments[k])) # {}
                    /\ check_generic_filename(Attachments[k].filename)
                           <=> IndicesOf(flags, GenericFilenameFlag(Attachments[k])) # {}
       /\ (Truthy(DictGet(submission, "url", None)) /\ ~NonEmptyList(Attachments))
              <=> IndicesOf(flags, "URL with no description") # {}

\* a submission with an empty body, a URL and one attachment gets the two
\* flags of the attachment and nothing else
EmptyBodySkipsTextChecksWitness ==
    /\ pc = "analyze_submission"
    /\ Body = ""
    /\ Truthy(DictGet(submission, "url", None))
    /\ flags = <<"Small file 'untitled1.docx' (500 bytes)", "Generic filename: 'untitled1.docx'">>

-----------------------------------------------------------------------------
(* Specification of analyses of submissions whose fields are absent or None *)

\* the choices for each field: absent, None, or a value
BodyField(i) ==
    CASE i = 1 -> EmptyDict
      [] i = 2 -> [body |-> None]
      [] i = 3 -> [body |-> "a b c d e f"]

AttachmentsField(i) ==
    CASE i = 1 -> EmptyDict
      [] i = 2 -> [attachments |-> None]
      [] i = 3 -> [attachments |-> <<[filename |-> None, size |-> 5]>>]
      [] i = 4 -> [attachments |-> <<[filename |-> "essay.docx", size |-> None]>>]
      [] i = 5 -> [attachments |-> <<[filename |-> "essay.docx"]>>]
      [] i = 6 -> [attachments |-> <<[size |-> 5]>>]
      [] i = 7 -> [attachments |-> <<EmptyDict>>]

UrlField(i) ==
    CASE i = 1 -> EmptyDict
      [] i = 2 -> [url |-> None]

UserIdField(i) ==
    CASE i = 1 -> EmptyDict
      [] i = 2 -> [user_id |-> None]
      [] i = 3 -> [user_id |-> UserId(1)]

UserField(i) ==
    CASE i = 1 -> EmptyDict
      [] i = 2 -> [user |-> None]
      [] i = 3 -> [user |-> EmptyDict]
      [] i = 4 -> [user |-> [name |-> None]]

\* a submission and a sibling of another student
SparsePool(b, a, u, id, sb, su) ==
    <<BodyField(b) @@ AttachmentsField(a) @@ UrlField(u) @@ UserIdField(id),
      [user_id |-> UserId(2)] @@ BodyField(sb) @@ UserField(su)>>

InitSparse ==
    /\ pc = "start"
    /\ CURRENT_PROFILE = None
    /\ SimIdle
    /\ ProfileIdle
    /\ \E b \in 1..3, a \in 1..7, u \in 1..2, id \in 1..3, sb \in 2..3, su \in 1..4 :
          all_submissions = SparsePool(b, a, u, id, sb, su)
    /\ found = NothingFound
    /\ submission = EmptyDict
    /\ flags = <<>>
    /\ raised = None
    /\ DraftIdle
    /\ CrossIdle
    /\ ReportIdle
    /\ GradeIdle
    /\ BiblioIdle
    /\ NumericIdle
    /\ PollIdle

NextSparse == SelectProfile \/ Analyze

SpecSparse == InitSparse /\ [][NextSparse]_vars

\* C16: analyze_submission never raises for a submission and a pool whose
\* fields are absent or None (body, attachments, url, user_id, a sibling's
\* user record, an attachment's size or filename): a flag list is returned.
NeverRaises ==
    pc = "analyze_submission" => raised = None

-----------------------------------------------------------------------------
(* The checks of analyze_submission that no profile switches off *)

\* the min_word_count threshold in force: the current profile's, 50 without a profile
MinWordsInForce ==
    IF CURRENT_PROFILE = None THEN 50
    ELSE ASSIGNMENT_PROFILES[CURRENT_PROFILE].thresholds.min_word_count

\* the word count of the body of the submission under analysis
AnalysedWordCount == IF Truthy(Body) THEN WordCountOf(Body) ELSE 0

\* the positions of the flags that start with a given text
FlagsStarting(prefix) == {k \in 1..Len(flags) : StartsWith(flags[k], prefix)}

\* C19: the short-text check of analyze_submission runs under every profile,
\* whatever checks_enabled says: a "Very short text" flag is appended if and
\* only if the body is non-empty and 0 < word count < the current profile's
\* min_word_count threshold (50 when no profile is current).
ShortTextAlwaysChecked ==
    (pc = "analyze_submission" /\ raised = None) =>
        LET expected == /\ Truthy(Body)
                        /\ 0 < AnalysedWordCount
                        /\ AnalysedWordCount < MinWordsInForce
        IN IF expected
           THEN /\ FlagsStarting("Very short text") = {1}
                /\ flags[1] = "Very short text (" \o ToString(AnalysedWordCount) \o " words)"
           ELSE FlagsStarting("Very short text") = {}

\* a body of 50 words or more flagged as very short under the research-paper
\* profile, whose threshold is 100
ShortTextAlwaysCheckedWitness ==
    /\ pc = "analyze_submission"
    /\ raised = None
    /\ CURRENT_PROFILE = "research_paper"
    /\ AnalysedWordCount >= 50
    /\ FlagsStarting("Very short text") = {1}

\* the flags of the list that the bibliographic check returns, in list order
IsBibliographic(flag) == flag \in Range(found.bibliographic_flags)
BibliographicPart == SelectSeq(flags, IsBibliographic)

\* C20: the bibliographic check of analyze_submission runs if and only if
\* the body's word count is > 300, under every profile and whatever the
\* checks_enabled map contains; its flags are appended after the structure
\* flags (essay organization, headings, prose-in-notes) and before the
\* cross-submission similarity flag.
BibliographicGate ==
    (pc = "analyze_submission" /\ raised = None) =>
        /\ BibliographicPart = IF AnalysedWordCount > 300 THEN found.bibliographic_flags
                               ELSE <<>>
        /\ \A i, j \in 1..Len(flags) :
              IsBibliographic(flags[j]) =>
                  /\ ChecksOf(flags[i]) \cap (1..16) # {} => i < j
                  /\ ChecksOf(flags[i]) \cap (18..20) # {} => j < i

\* a body of 301 words under a profile that switches checks off: its
\* bibliographic flag stands between a structure flag and the similarity flag
BibliographicGateWitness ==
    /\ pc = "analyze_submission"
    /\ raised = None
    /\ CURRENT_PROFILE \notin {None, "standard"}
    /\ AnalysedWordCount = 301
    /\ \E i, j, k \in 1..Len(flags) :
          /\ i < j /\ j < k
          /\ ChecksOf(flags[i]) \cap (14..16) # {}
          /\ IsBibliographic(flags[j])
          /\ ChecksOf(flags[k]) = {18}

-----------------------------------------------------------------------------
(* main's analysis loops and generate_report's CSV export *)

MaxTopics == 2

\* a dict keeps its keys in insertion order: it is a list of <<key, value>> items
HasItem(items, key) == \E k \in 1..Len(items) : items[k][1] = key

\* d.get(key, default)
GetItem(items, key, default) ==
    IF HasItem(items, key)
    THEN items[CHOOSE k \in 1..Len(items) : items[k][1] = key][2]
    ELSE default

\* d[key] = value: a key the dict has keeps its place
SetItem(items, key, value) ==
    IF HasItem(items, key)
    THEN [k \in 1..Len(items) |-> IF items[k][1] = key THEN <<key, value>> ELSE items[k]]
    ELSE Append(items, <<key, value>>)

\* get_submissions: {sub.get("user_id"): sub for sub in data if sub.get("user_id")},
\* the empty dict when the request failed or answered no list
RECURSIVE SubmissionsByUser(_, _)
SubmissionsByUser(data, n) ==
    IF n = 0 THEN <<>>
    ELSE LET sub == data[n]
             user_id == DictGet(sub, "user_id", None)
             before == SubmissionsByUser(data, n - 1)
         IN IF Truthy(user_id) THEN SetItem(before, user_id, sub) ELSE before

get_submissions(assignment) ==
    LET data == DictGet(assignment, "submissions", None)
    IN IF IsNone(data) THEN <<>> ELSE SubmissionsByUser(data, Len(data))

\* list(submissions.values())
Values(items) == [k \in 1..Len(items) |-> items[k][2]]

\* the loop of analyze_assignment over the students
RECURSIVE AssignmentScan(_, _, _, _, _)
AssignmentScan(students, n, submissions, outcome, empty) ==
    IF n = 0 THEN empty
    ELSE LET before == AssignmentScan(students, n - 1, submissions, outcome, empty)
             user_id == DictGet(students[n], "user_id", None)
             sub == GetItem(submissions, user_id, EmptyDict)
         IN IF ~Truthy(user_id) \/ ~HasItem(submissions, user_id) THEN before
            ELSE IF DictGet(sub, "workflow_state", None) = "unsubmitted" THEN before
            ELSE LET found_flags == analyze_submission(sub, Values(submissions), outcome)
                     body == DictGet(sub, "body", "")
                 IN [student_flags |->
                        IF found_flags # <<>>
                        THEN SetItem(before.student_flags, user_id, found_flags)
                        ELSE before.student_flags,
                     submission_texts |->
                        IF Truthy(body)
                        THEN SetItem(before.submission_texts, user_id, body)
                        ELSE before.submission_texts]

analyze_assignment(assignment, students, outcome) ==
    LET submissions == get_submissions(assignment)
        empty == [student_flags |-> <<>>, submission_texts |-> <<>>]
    IN IF submissions = <<>> THEN empty
       ELSE AssignmentScan(students, Len(students), submissions, outcome, empty)

\* main: student_names[user_id] = sub.get("user", {}).get("name", f"User {user_id}")
RECURSIVE SubmissionNames(_, _)
SubmissionNames(submissions, n) ==
    IF n = 0 THEN <<>>
    ELSE SetItem(SubmissionNames(submissions, n - 1), submissions[n][1],
                 DictGet(DictGet(submissions[n][2], "user", EmptyDict), "name",
                         "User " \o Str(submissions[n][1])))

\* main's loop over the assignments
RECURSIVE AnalyzedAssignments(_, _, _, _)
AnalyzedAssignments(assignment_list, n, students, outcome) ==
    IF n = 0 THEN <<>>
    ELSE LET assignment == assignment_list[n]
             assignment_id == DictGet(assignment, "id", None)
             analysis == analyze_assignment(assignment, students, outcome)
             submissions == get_submissions(assignment)
         IN SetItem(AnalyzedAssignments(assignment_list, n - 1, students, outcome),
                    assignment_id,
                    [name |-> DictGet(assignment, "name",
                                      "Assignment " \o ToString(assignment_id)),
                     flags |-> analysis.student_flags,
                     student_names |-> SubmissionNames(submissions, Len(submissions)),
                     submission_texts |-> analysis.submission_texts])

\* flatten_posts: a post, then its replies, then the posts after it
RECURSIVE flatten_posts(_)
flatten_posts(posts) ==
    IF posts = <<>> THEN <<>>
    ELSE <<posts[1]>>
         \o (IF "replies" \in DOMAIN posts[1] THEN flatten_posts(posts[1].replies) ELSE <<>>)
         \o flatten_posts(Tail(posts))

\* {student.get("user_id") for student in students if student.get("user_id")}
StudentUserIds(students) ==
    {DictGet(students[k], "user_id", None) : k \in 1..Len(students)} \ {None, ""}

\* the loop of analyze_discussion_posts over the flattened posts
RECURSIVE PostScan(_, _, _, _, _)
PostScan(all_posts, n, student_user_ids, outcome, empty) ==
    IF n = 0 THEN empty
    ELSE LET before == PostScan(all_posts, n - 1, student_user_ids, outcome, empty)
             post == all_posts[n]
             user_id == DictGet(post, "user_id", None)
             message == DictGet(post, "message", "")
         IN IF user_id \notin student_user_ids \/ ~Truthy(message) THEN before
            ELSE LET found_flags ==
                         analyze_submission([body |-> message, user_id |-> user_id,
                                             workflow_state |-> "submitted"],
                                            all_posts, outcome)
                 IN [student_flags |->
                        IF found_flags # <<>>
                        THEN SetItem(before.student_flags, user_id,
                                     GetItem(before.student_flags, user_id, <<>>)
                                     \o found_flags)
                        ELSE before.student_flags,
                     post_texts |->
                        SetItem(before.post_texts, user_id,
                                GetItem(before.post_texts, user_id, "") \o " " \o message)]

\* fetch_discussion_entries: the "view" list, the empty list when the request failed
fetch_discussion_entries(topic) ==
    LET entries == DictGet(topic, "entries", None)
    IN IF IsNone(entries) THEN <<>> ELSE entries

analyze_discussion_posts(topic, students, outcome) ==
    LET entries == fetch_discussion_entries(topic)
        all_posts == flatten_posts(entries)
        empty == [student_flags |-> <<>>, post_texts |-> <<>>]
    IN IF entries = <<>> THEN empty
       ELSE PostScan(all_posts, Len(all_posts), StudentUserIds(students), outcome, empty)

\* main: the names of the authors of a topic's top-level entries
RECURSIVE EntryNames(_, _)
EntryNames(entries, n) ==
    IF n = 0 THEN <<>>
    ELSE LET before == EntryNames(entries, n - 1)
             user_id == DictGet(entries[n], "user_id", None)
         IN IF Truthy(user_id)
            THEN SetItem(before, user_id,
                         DictGet(DictGet(entries[n], "user", EmptyDict), "name",
                                 "User " \o Str(user_id)))
            ELSE before

\* main's loop over the discussion topics
RECURSIVE AnalyzedDiscussions(_, _, _, _)
AnalyzedDiscussions(topics, n, students, outcome) ==
    IF n = 0 THEN <<>>
    ELSE LET topic == topics[n]
             topic_id == DictGet(topic, "id", None)
             analysis == analyze_discussion_posts(topic, students, outcome)
             entries == fetch_discussion_entries(topic)
         IN SetItem(AnalyzedDiscussions(topics, n - 1, students, outcome),
                    topic_id,
                    [name |-> DictGet(topic, "title", "Discussion " \o ToString(topic_id)),
                     flags |-> analysis.student_flags,
                     student_names |-> EntryNames(entries, Len(entries)),
                     post_texts |-> analysis.post_texts])

\* csv.writer writes the text of every cell
CsvHeader == <<"Type", "Student Name", "User ID", "Item", "Item ID", "Flag">>

\* for flag in flags: writer.writerow([type, student_name, user_id, item_name, item_id, flag])
FlagRows(type, item_id, item_data, user_id, flag_list) ==
    [k \in 1..Len(flag_list) |->
        <<type, GetItem(item_data.student_names, user_id, "User " \o Str(user_id)),
          Str(user_id), item_data.name, ToString(item_id), flag_list[k]>>]

\* for user_id, flags in item_data["flags"].items()
RECURSIVE UserRows(_, _, _, _)
UserRows(type, item_id, item_data, n) ==
    IF n = 0 THEN <<>>
    ELSE UserRows(type, item_id, item_data, n - 1)
         \o FlagRows(type, item_id, item_data, item_data.flags[n][1], item_data.flags[n][2])

\* for item_id, item_data in data.items()
RECURSIVE ItemRows(_, _, _)
ItemRows(type, data, n) ==
    IF n = 0 THEN <<>>
    ELSE ItemRows(type, data, n - 1)
         \o UserRows(type, data[n][1], data[n][2], Len(data[n][2].flags))

\* generate_report: the rows of the CSV export
CsvRows(data, discussions) ==
    <<CsvHeader>>
    \o ItemRows("Assignment", data, Len(data))
    \o (IF discussions # <<>> THEN ItemRows("Discussion", discussions, Len(discussions))
        ELSE <<>>)

-----------------------------------------------------------------------------
(* Specification of one run of main up to the CSV export *)

\* the enrolled students; the last record carries no user_id
ReportStudents == <<[user_id |-> UserId(1)], [user_id |-> UserId(2)], [name |-> "Zed"]>>

\* what Canvas answers for an assignment's submissions: no list; an empty
\* list; two similar short texts; two uploads of one small file; a record
\* that was not submitted, one of a user who is not enrolled and one without
\* a user_id
SubmissionLists ==
    <<None,
      <<>>,
      <<PoolEntry(1, "a b c d e f"), PoolEntry(2, "a b c d e f g")>>,
      <<[user_id |-> UserId(1), body |-> "",
         attachments |-> <<[filename |-> "essay.docx", size |-> 10],
                           [filename |-> "essay.docx", size |-> 10]>>]>>,
      <<[user_id |-> UserId(1), body |-> "a b", workflow_state |-> "unsubmitted"],
        PoolEntry(3, "a b"),
        [body |-> "a b"],
        [user_id |-> UserId(2), body |-> "a b", workflow_state |-> "submitted"]>> >>

\* what Canvas answers for a topic's entries: no view; a student's entry
\* and a reply of the same length by the same student; entries of an enrolled
\* student, of somebody else and an empty one; an entry and another student's reply
EntryLists ==
    <<None,
      <<[user_id |-> UserId(1), message |-> "a b c", user |-> [name |-> UserNames[1]],
         replies |-> <<[user_id |-> UserId(1), message |-> "d e f"]>>]>>,
      <<[user_id |-> UserId(2), message |-> "a b"],
        [user_id |-> UserId(3), message |-> "a b"],
        [user_id |-> UserId(1), message |-> ""]>>,
      <<[user_id |-> UserId(1), message |-> "a b c d e f",
         replies |-> <<[user_id |-> UserId(2), message |-> "a b c d e f",
                        replies |-> <<[message |-> "a"]>>]>>]>> >>

\* the k-th assignment of the course; every other one carries a name
CourseAssignment(k, list) ==
    IF k % 2 = 1
    THEN [id |-> 100 + k, name |-> "Essay " \o ToString(k), submissions |-> SubmissionLists[list]]
    ELSE [id |-> 100 + k, submissions |-> SubmissionLists[list]]

\* the k-th discussion topic of the course; every other one carries a title
CourseTopic(k, list) ==
    IF k % 2 = 1
    THEN [id |-> 200 + k, title |-> "Forum " \o ToString(k), entries |-> EntryLists[list]]
    ELSE [id |-> 200 + k, entries |-> EntryLists[list]]

InitReport ==
    /\ pc = "start"
    /\ CURRENT_PROFILE = None
    /\ SimIdle
    /\ ProfileIdle
    /\ all_submissions = <<>>
    /\ submission = EmptyDict
    /\ found = NothingFound
    /\ flags = <<>>
    /\ raised = None
    /\ DraftIdle
    /\ CrossIdle
    /\ \E n \in 0..MaxAssignments : \E lists \in [1..n -> 1..Len(SubmissionLists)] :
          course_assignments = [k \in 1..n |-> CourseAssignment(k, lists[k])]
    /\ \E n \in 0..MaxTopics : \E lists \in [1..n -> 1..Len(EntryLists)] :
          discussion_topics = [k \in 1..n |-> CourseTopic(k, lists[k])]
    /\ discussion_data = <<>>
    /\ csv_rows = <<>>
    /\ GradeIdle
    /\ BiblioIdle
    /\ NumericIdle
    /\ PollIdle

\* main: the loop that fills all_data
AnalyzeAssignments ==
    /\ pc \in {"start", "select_assignment_profile"}
    /\ all_data' = AnalyzedAssignments(course_assignments, Len(course_assignments),
                                       ReportStudents, found)
    /\ pc' = "assignments"
    /\ UNCHANGED <<CURRENT_PROFILE, simVars, profileVars, analysisVars, draftVars, cross_result,
                   course_assignments, discussion_topics, discussion_data, csv_rows, gradeVars, biblioVars, numericVars, pollVars>>

\* main: the loop that fills discussion_data
AnalyzeDiscussions ==
    /\ pc = "assignments"
    /\ discussion_data' = AnalyzedDiscussions(discussion_topics, Len(discussion_topics),
                                              ReportStudents, found)
    /\ pc' = "discussions"
    /\ UNCHANGED <<CURRENT_PROFILE, simVars, profileVars, analysisVars, draftVars, crossVars,
                   course_assignments, discussion_topics, csv_rows, gradeVars, biblioVars, numericVars, pollVars>>

\* main: generate_report(course_id, course_name, all_data, ..., discussion_data)
GenerateReport ==
    /\ pc = "discussions"
    /\ csv_rows' = CsvRows(all_data, discussion_data)
    /\ pc' = "generate_report"
    /\ UNCHANGED <<CURRENT_PROFILE, simVars, profileVars, analysisVars, draftVars, crossVars,
                   course_assignments, discussion_topics, discussion_data, gradeVars, biblioVars, numericVars, pollVars>>

NextReport == SelectProfile \/ AnalyzeAssignments \/ AnalyzeDiscussions \/ GenerateReport

SpecReport == InitReport /\ [][NextReport]_vars

\* the (type, user, item, flag) combinations of the flag lists handed to generate_report
TriplesOf(type, data) ==
    UNION {UNION {{<<type, Str(data[i][2].flags[u][1]), ToString(data[i][1]), flag>> :
                      flag \in Range(data[i][2].flags[u][2])}
                  : u \in 1..Len(data[i][2].flags)}
           : i \in 1..Len(data)}

ReportedTriples == TriplesOf("Assignment", all_data) \cup TriplesOf("Discussion", discussion_data)

\* the combination a row of the CSV file stands for
TripleOfRow(row) == <<row[1], row[3], row[5], row[6]>>

\* the rows below the header
DataRows == 2..Len(csv_rows)

\* C17: the CSV report written by generate_report represents every
\* (student, item, flag) triple exactly once: for each assignment and each
\* discussion topic, each user and each flag of that user's flag list there
\* is exactly one row, and no row exists without such a flag.
EveryTripleExactlyOnce ==
    pc = "generate_report" =>
        /\ \A triple \in ReportedTriples :
              Cardinality({k \in DataRows : TripleOfRow(csv_rows[k]) = triple}) = 1
        /\ \A k \in DataRows : TripleOfRow(csv_rows[k]) \in ReportedTriples

\* the rows written for the flag lists of one kind of item: one row for
\* every position of every list, so a flag that a list holds twice is
\* written twice
RowsMatchLists(type, data) ==
    \A i \in 1..Len(data) : \A u \in 1..Len(data[i][2].flags) :
        LET flag_list == data[i][2].flags[u][2]
        IN \A flag \in Range(flag_list) :
              Cardinality({k \in DataRows :
                              TripleOfRow(csv_rows[k])
                              = <<type, Str(data[i][2].flags[u][1]), ToString(data[i][1]), flag>>})
              = Cardinality({k \in 1..Len(flag_list) : flag_list[k] = flag})

\* what the export does guarantee
OneRowPerListedFlag ==
    pc = "generate_report" =>
        /\ csv_rows[1] = CsvHeader
        /\ \A k \in DataRows : TripleOfRow(csv_rows[k]) \in ReportedTriples
        /\ RowsMatchLists("Assignment", all_data)
        /\ RowsMatchLists("Discussion", discussion_data)

\* a report in which a student's flag list holds the same flag twice
RepeatedFlagReported ==
    /\ pc = "generate_report"
    /\ \E k \in DataRows : \E j \in DataRows : k # j /\ csv_rows[k] = csv_rows[j]

-----------------------------------------------------------------------------
(* The complete/incomplete grader                                          *)
(* (src/src/Programs/Autograder_Complete-Incomplete_v1-3.py)               *)

MaxStudents == 2

\* s.endswith(p)
EndsWith(s, p) == Len(s) >= Len(p) /\ SubSeq(s, Len(s) - Len(p) + 1, Len(s)) = p

\* is_pdf = content_type.startswith("application/pdf") or file_name.lower().endswith(".pdf")
IsPdf(file, default_name) ==
    \/ StartsWith(DictGet(file, "content-type", ""), "application/pdf")
    \/ EndsWith(Lower(DictGet(file, "filename", default_name)), ".pdf")

has_pdf_annotations(sub) ==
    LET submission_type == DictGet(sub, "submission_type", None)
        attachments == DictGet(sub, "attachments", <<>>)
    IN \/ submission_type = "student_annotation"
       \/ /\ submission_type = "online_upload"
          /\ \E k \in 1..Len(attachments) :
                /\ IsPdf(attachments[k], "")
                /\ \/ Truthy(DictGet(attachments[k], "canvadoc_document_id", None))
                   \/ Truthy(DictGet(attachments[k], "preview_url", None))

\* the attachment loop of evaluate_submission
RECURSIVE GraderAttachmentFlags(_)
GraderAttachmentFlags(attachments) ==
    IF attachments = <<>> THEN <<>>
    ELSE LET file == attachments[1]
             file_size == DictGet(file, "size", 0)
             file_name == DictGet(file, "filename", "unknown")
             is_pdf == IsPdf(file, "unknown")
         IN (IF /\ is_pdf
                /\ ~Truthy(DictGet(file, "canvadoc_document_id", None))
                /\ ~Truthy(DictGet(file, "preview_url", None))
             THEN <<"PDF '" \o file_name
                    \o "' uploaded without annotations - may need manual review">>
             ELSE <<>>)
            \o (IF ~is_pdf /\ file_size > 0 /\ file_size < MIN_FILE_SIZE
                THEN <<"Small file '" \o file_name \o "' (" \o ToString(file_size) \o " bytes)">>
                ELSE <<>>)
            \o GraderAttachmentFlags(Tail(attachments))

\* evaluate_submission returns (is_complete, flags)
evaluate_submission(sub, min_word_count) ==
    LET submission_type == DictGet(sub, "submission_type", None)
        body == DictGet(sub, "body", "")
        attachments == DictGet(sub, "attachments", <<>>)
        url == DictGet(sub, "url", None)
        word_count == count_words(body)
        has_content == Truthy(body) \/ attachments # <<>> \/ Truthy(url)
        is_submitted == /\ Truthy(submission_type)
                        /\ submission_type \notin {"not_submitted", "none", "on_paper"}
    IN IF has_pdf_annotations(sub) THEN [is_complete |-> TRUE, flags |-> <<>>]
       ELSE [is_complete |-> has_content /\ is_submitted,
             flags |->
                (IF Truthy(body) /\ word_count > 0 /\ word_count < min_word_count
                 THEN <<"Very short text (" \o ToString(word_count) \o " words)">>
                 ELSE <<>>)
                \o GraderAttachmentFlags(attachments)
                \o (IF Truthy(url) /\ ~Truthy(body) /\ attachments = <<>>
                    THEN <<"URL with no description">> ELSE <<>>)]

\* the outcome of one pass of grade_assignment's loop for a student who gets a grade
Graded(before, user_id, sub, grade, evaluation) ==
    [grade_data |-> SetItem(before.grade_data, Str(user_id), [posted_grade |-> grade]),
     flagged_submissions |->
        IF grade = "complete" /\ evaluation.flags # <<>>
        THEN Append(before.flagged_submissions,
                    [name |-> DictGet(DictGet(sub, "user", EmptyDict), "name",
                                      "User " \o Str(user_id)),
                     user_id |-> user_id,
                     flags |-> evaluation.flags])
        ELSE before.flagged_submissions,
     marked_complete |-> before.marked_complete + (IF grade = "complete" THEN 1 ELSE 0),
     marked_incomplete |-> before.marked_incomplete + (IF grade = "complete" THEN 0 ELSE 1),
     skipped_already_complete |-> before.skipped_already_complete]

\* the outcome of one pass for a student who is skipped
Skipped(before) ==
    [before EXCEPT !.skipped_already_complete = @ + 1]

NothingGraded ==
    [grade_data |-> <<>>, flagged_submissions |-> <<>>, marked_complete |-> 0,
     marked_incomplete |-> 0, skipped_already_complete |-> 0]

\* a slip that asks for the existing grade of submitted work only
RECURSIVE grade_assignment_submitted_only(_, _, _, _, _)
grade_assignment_submitted_only(students, n, submissions, min_word_count, regrade) ==
    IF n = 0 THEN NothingGraded
    ELSE LET before == grade_assignment_submitted_only(students, n - 1, submissions,
                                                       min_word_count, regrade)
             user_id == DictGet(students[n], "user_id", None)
             fetched == HasItem(submissions, user_id)
             sub == GetItem(submissions, user_id, EmptyDict)
         IN IF ~Truthy(user_id) THEN before
            ELSE IF fetched /\ DictGet(sub, "workflow_state", None) # "unsubmitted"
            THEN IF regrade /\ DictGet(sub, "grade", None) = "complete"
                 THEN Skipped(before)
                 ELSE LET evaluation == evaluate_submission(sub, min_word_count)
                      IN Graded(before, user_id, sub,
                                IF evaluation.is_complete THEN "complete" ELSE "incomplete",
                                evaluation)
            ELSE Graded(before, user_id, sub, "incomplete", [flags |-> <<>>])

\* grade_assignment: the loop over the enrollments
RECURSIVE grade_assignment(_, _, _, _, _)
grade_assignment(students, n, submissions, min_word_count, regrade) ==
    IF n = 0 THEN NothingGraded
    ELSE LET before == grade_assignment(students, n - 1, submissions, min_word_count, regrade)
             user_id == DictGet(students[n], "user_id", None)
             fetched == HasItem(submissions, user_id)
             sub == GetItem(submissions, user_id, EmptyDict)
         IN IF ~Truthy(user_id) THEN before
            ELSE IF fetched /\ DictGet(sub, "workflow_state", None) # "unsubmitted"
            THEN IF regrade /\ DictGet(sub, "grade", None) = "complete"
                 THEN Skipped(before)
                 ELSE LET evaluation == evaluate_submission(sub, min_word_count)
                      IN Graded(before, user_id, sub,
                                IF evaluation.is_complete THEN "complete" ELSE "incomplete",
                                evaluation)
            ELSE IF regrade /\ fetched /\ DictGet(sub, "grade", None) = "complete"
            THEN Skipped(before)
            ELSE Graded(before, user_id, sub, "incomplete", [flags |-> <<>>])

-----------------------------------------------------------------------------
(* Specification of one assignment graded by the grader's main *)

\* the grades, workflow states and contents of the fetched submissions
FetchedGrades == <<None, "complete", "incomplete">>
FetchedStates == <<"unsubmitted", "submitted", "graded">>

SubmissionContent(i) ==
    CASE i = 1 -> [submission_type |-> None]
      [] i = 2 -> [submission_type |-> "online_text_entry", body |-> "a b"]
      [] i = 3 -> [submission_type |-> "student_annotation"]
      [] i = 4 -> [submission_type |-> "online_upload",
                   attachments |-> <<[filename |-> "Essay.PDF", size |-> 10]>>]

\* the k-th student's fetched submission; every other one carries a user record
FetchedSubmission(k, grade, state, content) ==
    (IF k % 2 = 1
     THEN [user_id |-> UserId(k), grade |-> FetchedGrades[grade],
           workflow_state |-> FetchedStates[state], user |-> [name |-> UserNames[k]]]
     ELSE [user_id |-> UserId(k), grade |-> FetchedGrades[grade],
           workflow_state |-> FetchedStates[state]])
    @@ SubmissionContent(content)

\* the submissions Canvas answers with: those of the students with has[k]
RECURSIVE FetchedList(_, _, _, _, _)
FetchedList(n, has, grade, state, content) ==
    IF n = 0 THEN <<>>
    ELSE FetchedList(n - 1, has, grade, state, content)
         \o (IF has[n] THEN <<FetchedSubmission(n, grade[n], state[n], content[n])>>
             ELSE <<>>)

InitGrade ==
    /\ pc = "start"
    /\ CURRENT_PROFILE = None
    /\ SimIdle
    /\ ProfileIdle
    /\ AnalysisIdle
    /\ DraftIdle
    /\ CrossIdle
    /\ ReportIdle
    /\ \E n \in 0..MaxStudents :
          /\ enrollments = [k \in 1..n |-> [user_id |-> UserId(k)]] \o <<[type |-> "StudentEnrollment"]>>
          /\ \E has \in [1..n -> BOOLEAN], grade \in [1..n -> 1..3],
                state \in [1..n -> 1..3], content \in [1..n -> 1..4] :
                /\ \A k \in 1..n : ~has[k] => grade[k] = 1 /\ state[k] = 1 /\ content[k] = 1
                /\ LET data == FetchedList(n, has, grade, state, content)
                   IN fetched_submissions = SubmissionsByUser(data, Len(data))
    /\ regrade_mode = FALSE
    /\ grade_data = <<>>
    /\ flagged_submissions = <<>>
    /\ BiblioIdle
    /\ NumericIdle
    /\ PollIdle

\* main: regrade mode is asked for when all assignments are graded
\* (default "2") and is always on when assignment ids are entered
ChooseMode ==
    /\ pc = "start"
    /\ \E selection_mode \in {"1", "2"}, regrade_choice \in {"1", "2"} :
          regrade_mode' = IF selection_mode = "2" THEN regrade_choice = "2" ELSE TRUE
    /\ pc' = "mode"
    /\ UNCHANGED <<CURRENT_PROFILE, simVars, profileVars, analysisVars, draftVars, crossVars,
                   reportVars, enrollments, fetched_submissions, grade_data, flagged_submissions, biblioVars, numericVars, pollVars>>

\* main: flagged = grade_assignment(course_id, aid, students, submissions,
\* MIN_WORD_COUNT, regrade_mode)
GradeAssignment ==
    /\ pc = "mode"
    /\ \E min_word_count \in {1, 50} :
          LET graded == grade_assignment(enrollments, Len(enrollments), fetched_submissions,
                                         min_word_count, regrade_mode)
          IN /\ grade_data' = graded.grade_data
             /\ flagged_submissions' = graded.flagged_submissions
    /\ pc' = "grade_assignment"
    /\ UNCHANGED <<CURRENT_PROFILE, simVars, profileVars, analysisVars, draftVars, crossVars,
                   reportVars, enrollments, fetched_submissions, regrade_mode, biblioVars, numericVars, pollVars>>

NextGrade == ChooseMode \/ GradeAssignment

SpecGrade == InitGrade /\ [][NextGrade]_vars

\* the fetched submission of a user has grade "complete"
AlreadyComplete(user_id) ==
    /\ HasItem(fetched_submissions, user_id)
    /\ DictGet(GetItem(fetched_submissions, user_id, EmptyDict), "grade", None) = "complete"

\* C18: in regrade mode, grade_assignment never changes an existing
\* "complete" grade to "incomplete": the grade_data it posts contains no
\* entry for any student whose fetched submission already has grade
\* "complete", whatever that submission's workflow state or content.
RegradeKeepsComplete ==
    (pc = "grade_assignment" /\ regrade_mode) =>
        \A k \in 1..Len(fetched_submissions) :
            AlreadyComplete(fetched_submissions[k][1])
                => ~HasItem(grade_data, Str(fetched_submissions[k][1]))

\* regrade mode: a student graded "complete" whose submission is now
\* unsubmitted and empty is left out, while a grade is posted for another student
RegradeKeepsCompleteWitness ==
    /\ pc = "grade_assignment"
    /\ regrade_mode
    /\ \E k \in 1..Len(fetched_submissions) :
          LET sub == fetched_submissions[k][2]
          IN /\ sub.grade = "complete"
             /\ sub.workflow_state = "unsubmitted"
             /\ sub.submission_type = None
             /\ ~HasItem(grade_data, Str(sub.user_id))
    /\ grade_data # <<>>

-----------------------------------------------------------------------------
(* check_bibliographic_markers and verify_citations_batch                  *)

MaxCitations == 3
MaxLookups == 2

\* s.replace(",", "")
RECURSIVE RemoveCommas(_)
RemoveCommas(s) ==
    IF s = "" THEN ""
    ELSE (IF SubSeq(s, 1, 1) = "," THEN "" ELSE SubSeq(s, 1, 1)) \o RemoveCommas(Tail(s))

\* author.split()[0].replace(",", ""): the first author's surname
Surname(author) ==
    LET runs == Runs(author, Whitespace)
        first == CHOOSE r \in runs : \A q \in runs : r[1] <= q[1]
    IN RemoveCommas(SubSeq(author, first[1], first[2]))

\* all_citations = [(author.split()[0].replace(",", ""), year) for author, year in apa_citations]
AllCitations(apa) == [k \in 1..Len(apa) |-> <<Surname(apa[k][1]), apa[k][2]>>]

COMMON_NAMES == {"smith", "johnson", "williams", "brown", "jones", "davis", "miller"}

\* sum(1 for _, year in all_citations if year.endswith('0'))
RoundYears(all_citations) ==
    Cardinality({k \in 1..Len(all_citations) : EndsWith(all_citations[k][2], "0")})

\* sum(1 for author, _ in all_citations if author.lower() in common_names)
GenericAuthors(all_citations) ==
    Cardinality({k \in 1..Len(all_citations) : Lower(all_citations[k][1]) \in COMMON_NAMES})

\* Counter(years)[year]
YearCount(all_citations, year) ==
    Cardinality({k \in 1..Len(all_citations) : all_citations[k][2] = year})

\* Counter(years).most_common(1)[0]: the year counted most often, the one
\* cited first among equals
MostCommon(all_citations) ==
    LET k == CHOOSE i \in 1..Len(all_citations) :
                 /\ \A j \in 1..Len(all_citations) :
                       YearCount(all_citations, all_citations[j][2])
                       <= YearCount(all_citations, all_citations[i][2])
                 /\ \A j \in 1..(i - 1) :
                       YearCount(all_citations, all_citations[j][2])
                       < YearCount(all_citations, all_citations[i][2])
    IN [year |-> all_citations[k][2], count |-> YearCount(all_citations, all_citations[k][2])]

\* a slip that flags a year cluster by its share alone
ClusterFlags_share_only(all_citations) ==
    LET top == MostCommon(all_citations)
    IN IF 10 * top.count > 4 * Len(all_citations)
       THEN <<"Many citations clustered in " \o top.year
              \o " (" \o ToString(top.count) \o " citations)">>
       ELSE <<>>

\* count >= 3 and count / len(all_citations) > 0.4
ClusterFlags(all_citations) ==
    LET top == MostCommon(all_citations)
    IN IF top.count >= 3 /\ 10 * top.count > 4 * Len(all_citations)
       THEN <<"Many citations clustered in " \o top.year
              \o " (" \o ToString(top.count) \o " citations)">>
       ELSE <<>>

\* 3. Check for suspicious patterns in citations
SuspiciousFlags(all_citations) ==
    IF all_citations = <<>> THEN <<>>
    ELSE LET round_years == RoundYears(all_citations)
             generic_authors == GenericAuthors(all_citations)
         IN (IF Len(all_citations) >= 3 /\ 2 * round_years > Len(all_citations)
             THEN <<"Suspicious: Many citations from round years (" \o ToString(round_years)
                    \o "/" \o ToString(Len(all_citations)) \o ")">>
             ELSE <<>>)
            \o (IF generic_authors >= 2
                THEN <<"Multiple citations with very common author surnames ("
                       \o ToString(generic_authors) \o ")">>
                ELSE <<>>)
            \o ClusterFlags(all_citations)

\* the entry of results["details"] for one citation, given what the two
\* lookups returned (the "matches" the services sent are left out)
CitationDetail(citation, lookup) ==
    LET author == citation[1]
        year == citation[2]
    IN IF lookup.crossref.verified
       THEN [author |-> author, year |-> year, status |-> "verified", source |-> "CrossRef"]
       ELSE IF lookup.openlibrary.verified
       THEN [author |-> author, year |-> year, status |-> "verified", source |-> "OpenLibrary"]
       ELSE IF Truthy(lookup.crossref.error) \/ Truthy(lookup.openlibrary.error)
       THEN [author |-> author, year |-> year, status |-> "error",
             error |-> IF Truthy(lookup.crossref.error) THEN lookup.crossref.error
                       ELSE lookup.openlibrary.error]
       ELSE [author |-> author, year |-> year, status |-> "not_found",
             note |-> "Citation could not be verified in CrossRef or OpenLibrary"]

\* the number of entries with a status
WithStatus(details, status) ==
    Cardinality({k \in 1..Len(details) : details[k].status = status})

\* verify_citations_batch: answers[k] is what the lookups for citations[k] return
verify_citations_batch(citations, answers) ==
    LET details == [k \in 1..Len(citations) |-> CitationDetail(citations[k], answers[k])]
    IN [total |-> Len(citations),
        verified |-> WithStatus(details, "verified"),
        not_found |-> WithStatus(details, "not_found"),
        errors |-> WithStatus(details, "error"),
        details |-> details]

\* the entries of a list that satisfy a status, in list order
RECURSIVE StatusList(_, _)
StatusList(details, status) ==
    IF details = <<>> THEN <<>>
    ELSE (IF details[1].status = status THEN <<details[1]>> ELSE <<>>)
         \o StatusList(Tail(details), status)

\* 5. the flags added from the verification results (the warning sign that
\* opens the first one is written "!")
VerificationFlags(results) ==
    IF results.not_found > 0
    THEN LET not_found_list == StatusList(results.details, "not_found")
             shown == SubSeq(not_found_list, 1, IF Len(not_found_list) < 3
                                                THEN Len(not_found_list) ELSE 3)
         IN <<"! " \o ToString(results.not_found) \o " citation(s) could not be verified:">>
            \o [k \in 1..Len(shown) |->
                   "   - " \o shown[k].author \o " (" \o shown[k].year \o ")"]
            \o (IF Len(not_found_list) > 3
                THEN <<"   - ... and " \o ToString(Len(not_found_list) - 3) \o " more">>
                ELSE <<>>)
    ELSE <<>>

\* the distinct citations of a list
CitationSet(all_citations) == {all_citations[k] : k \in 1..Len(all_citations)}

\* check_bibliographic_markers for a text of which the patterns find facts
\* and apa; unique_citations is list(set(all_citations)) in the order the set
\* yields, answers what the lookups return
BibliographicMarkers(facts, apa, verify, unique_citations, answers) ==
    LET all_citations == AllCitations(apa)
        verification == IF verify /\ all_citations # <<>>
                        THEN verify_citations_batch(unique_citations, answers)
                        ELSE EmptyDict
    IN [flags |->
            (IF facts.vague_count >= 3
             THEN <<"Vague citation language without specific sources ("
                    \o ToString(facts.vague_count) \o " instances)">>
             ELSE <<>>)
            \o SuspiciousFlags(all_citations)
            \o (IF Len(all_citations) >= 3 /\ ~facts.has_references_section
                THEN <<"In-text citations present but no References/Works Cited section">>
                ELSE <<>>)
            \o (IF verification # EmptyDict THEN VerificationFlags(verification) ELSE <<>>),
        citations_found |->
            SubSeq(all_citations, 1, IF Len(all_citations) < 10 THEN Len(all_citations) ELSE 10),
        verification |-> verification]

\* (author, year) pairs as the APA pattern captures them
CitedAuthors == {"Smith et al.", "Lee"}
CitedYears == {"2020", "2010", "2021"}
ApaPairs == CitedAuthors \X CitedYears

\* the lists of at most n elements of S
ListsUpTo(S, n) == UNION {[1..k -> S] : k \in 0..n}

\* citations by one author in the given years
CitesIn(years) == [k \in 1..Len(years) |-> <<"Lee", years[k]>>]

\* longer reference lists on both sides of the 40% and 50% marks
LongLists ==
    {CitesIn(<<"2020", "2001", "2020", "2002", "2003", "2020", "2004">>),
     CitesIn(<<"2020", "2001", "2020", "2002", "2003", "2020", "2004", "2005">>),
     CitesIn(<<"2020", "2020", "2001", "2002", "2020", "2003", "2004", "2020", "2005", "2006">>),
     CitesIn(<<"2001", "2020", "2020", "2002", "2020", "2003", "2020", "2004", "2005">>),
     CitesIn(<<"2010", "2001", "2020", "2002">>),
     CitesIn(<<"2010", "2001", "2020", "2002", "2030">>),
     CitesIn(<<"2001", "2001", "2002", "2002", "2003">>)}

\* what the patterns find in a text besides the citations
TextFacts == [vague_count : {0, 3}, has_references_section : BOOLEAN]

\* what verify_citation_crossref can return: a match, no match, or an error text
CrossrefResults ==
    {[verified |-> TRUE, error |-> None],
     [verified |-> FALSE, error |-> None],
     [verified |-> FALSE, error |-> "Request timed out"]}

\* what verify_citation_openlibrary can return; str(e) of an exception raised
\* without arguments is the empty string
OpenLibraryResults ==
    {[verified |-> TRUE, error |-> None],
     [verified |-> FALSE, error |-> None],
     [verified |-> FALSE, error |-> "API returned status 500"],
     [verified |-> FALSE, error |-> ""]}

\* the answers of the two services for one citation; OpenLibrary is asked
\* only when CrossRef did not verify
LookupAnswers ==
    {a \in [crossref : CrossrefResults, openlibrary : OpenLibraryResults] :
        a.crossref.verified => a.openlibrary = [verified |-> FALSE, error |-> None]}

\* the citations looked up when verification is on
VerifiedPairs == {<<"Lee", "2020">>, <<"Smith et al.", "2020">>, <<"Lee", "2021">>}

InitBiblio ==
    /\ pc = "start"
    /\ CURRENT_PROFILE = None
    /\ SimIdle
    /\ ProfileIdle
    /\ AnalysisIdle
    /\ DraftIdle
    /\ CrossIdle
    /\ ReportIdle
    /\ GradeIdle
    /\ text_facts \in TextFacts
    /\ \/ /\ verify_citations = FALSE
          /\ apa_citations \in ListsUpTo(ApaPairs, MaxCitations) \cup LongLists
          /\ lookups = <<>>
       \/ /\ verify_citations = TRUE
          /\ apa_citations \in ListsUpTo(VerifiedPairs, MaxLookups)
          /\ lookups \in [1..Cardinality(CitationSet(AllCitations(apa_citations))) -> LookupAnswers]
    /\ batch_citations = <<>>
    /\ batch_result = EmptyDict
    /\ bib_result = EmptyDict
    /\ NumericIdle
    /\ PollIdle

\* check_bibliographic_markers(text, verify_citations); the set of distinct
\* citations is listed in any order
CheckBibliographic ==
    /\ pc = "start"
    /\ \E unique_citations \in Orders(CitationSet(AllCitations(apa_citations))) :
          /\ batch_citations' = IF verify_citations THEN unique_citations ELSE <<>>
          /\ bib_result' = BibliographicMarkers(text_facts, apa_citations, verify_citations,
                                                unique_citations, lookups)
    /\ batch_result' = bib_result'.verification
    /\ pc' = "check_bibliographic_markers"
    /\ UNCHANGED <<apa_citations, text_facts, verify_citations, lookups, numericVars, pollVars>>
    /\ UNCHANGED <<CURRENT_PROFILE, simVars, profileVars, analysisVars, draftVars, crossVars,
                   reportVars, gradeVars, numericVars, pollVars>>

NextBiblio == CheckBibliographic

SpecBiblio == InitBiblio /\ [][NextBiblio]_vars

\* the flags of the result that start with a prefix
MarkerFlags(prefix) ==
    {k \in 1..Len(bib_result.flags) : StartsWith(bib_result.flags[k], prefix)}

Checked == pc = "check_bibliographic_markers"

\* some year is the year of more than 40% of the citations
SomeYearAbove40 ==
    \E k \in 1..Len(apa_citations) :
        10 * YearCount(AllCitations(apa_citations), apa_citations[k][2]) > 4 * Len(apa_citations)

\* some year is the year of at least three and more than 40% of the citations
ThreeInYearAbove40 ==
    \E k \in 1..Len(apa_citations) :
        /\ YearCount(AllCitations(apa_citations), apa_citations[k][2]) >= 3
        /\ 10 * YearCount(AllCitations(apa_citations), apa_citations[k][2]) > 4 * Len(apa_citations)

\* the three flags of C21 that the code and the claim agree on
OtherMarkers ==
    /\ MarkerFlags("Suspicious: Many citations from round years") # {}
          <=> /\ Len(apa_citations) >= 3
              /\ 2 * Cardinality({k \in 1..Len(apa_citations) :
                                     EndsWith(apa_citations[k][2], "0")}) > Len(apa_citations)
    /\ MarkerFlags("Multiple citations with very common author surnames") # {}
          <=> Cardinality({k \in 1..Len(apa_citations) :
                              StartsWith(apa_citations[k][1], "Smith")}) >= 2
    /\ MarkerFlags("In-text citations present but no References") # {}
          <=> Len(apa_citations) >= 3 /\ ~text_facts.has_references_section

\* C21 as stated: the year-cluster flag is emitted whenever more than 40% of
\* the detected citations share one year, the round-year flag only with at
\* least three citations of which more than half end in 0, the
\* common-surname flag with two or more common surnames, the
\* missing-references flag with three or more citations and no References
\* section.
ClusterWheneverAbove40 ==
    Checked =>
        /\ MarkerFlags("Many citations clustered in") # {} <=> SomeYearAbove40
        /\ OtherMarkers

\* C21 amended: the year-cluster flag is emitted exactly when one year is the
\* year of at least three citations and of more than 40% of them; the other
\* three flags as stated.
ClusterNeedsThree ==
    Checked =>
        /\ MarkerFlags("Many citations clustered in") # {} <=> ThreeInYearAbove40
        /\ OtherMarkers

\* three of seven citations share a year and the cluster flag is there
ClusterNeedsThreeWitness ==
    /\ Checked
    /\ Len(apa_citations) = 7
    /\ MarkerFlags("Many citations clustered in 2020 (3 citations)") # {}

\* the batch ran: verification is on and there is a citation to look up
BatchRan == Checked /\ verify_citations /\ apa_citations # <<>>

\* every citation is counted once, with one entry, in the order handed in
BatchCountsAdd ==
    BatchRan =>
        /\ batch_result.total = Len(batch_citations)
        /\ batch_result.verified + batch_result.not_found + batch_result.errors
              = batch_result.total
        /\ Len(batch_result.details) = batch_result.total
        /\ \A k \in 1..Len(batch_citations) :
              /\ batch_result.details[k].author = batch_citations[k][1]
              /\ batch_result.details[k].year = batch_citations[k][2]
              /\ batch_result.details[k].status \in {"verified", "not_found", "error"}
        /\ batch_result.verified = WithStatus(batch_result.details, "verified")
        /\ batch_result.not_found = WithStatus(batch_result.details, "not_found")
        /\ batch_result.errors = WithStatus(batch_result.details, "error")

\* the "could not be verified" flags name citations that were not found, and
\* no others
FlagsOnlyForNotFound ==
    BatchRan =>
        /\ MarkerFlags("! ") # {} <=> batch_result.not_found > 0
        /\ \A f \in MarkerFlags("   - ") :
              \E k \in 1..Len(batch_result.details) :
                  /\ batch_result.details[k].status = "not_found"
                  /\ bib_result.flags[f] = "   - " \o batch_result.details[k].author
                                           \o " (" \o batch_result.details[k].year \o ")"

\* lookup k was not verified and a service reported an error for it
LookupFailed(k) ==
    /\ ~lookups[k].crossref.verified
    /\ ~lookups[k].openlibrary.verified
    /\ (lookups[k].crossref.error # None \/ lookups[k].openlibrary.error # None)

\* lookup k was not verified and a service reported an error with a message
LookupFailedWithMessage(k) ==
    /\ ~lookups[k].crossref.verified
    /\ ~lookups[k].openlibrary.verified
    /\ (Truthy(lookups[k].crossref.error) \/ Truthy(lookups[k].openlibrary.error))

\* C26: a failing citation lookup never raises and never produces a flag;
\* verify_citations_batch classifies every citation as exactly one of
\* verified, not_found and error (the counts add up to the total, one details
\* entry per citation in input order); a citation whose lookup failed without
\* being verified is counted as error, not as not_found; the "could not be
\* verified" flags are added only for not_found citations.
FailedLookupIsError ==
    /\ raised = None
    /\ BatchCountsAdd
    /\ FlagsOnlyForNotFound
    /\ BatchRan =>
          \A k \in 1..Len(batch_citations) :
              LookupFailed(k) =>
                  /\ batch_result.details[k].status = "error"
                  /\ \A f \in MarkerFlags("   - ") :
                        bib_result.flags[f] # "   - " \o batch_citations[k][1]
                                              \o " (" \o batch_citations[k][2] \o ")"

\* what holds of the code: the same with "failed" read as "failed with a
\* non-empty error text"
FailedLookupWithMessageIsError ==
    /\ raised = None
    /\ BatchCountsAdd
    /\ FlagsOnlyForNotFound
    /\ BatchRan =>
          \A k \in 1..Len(batch_citations) :
              /\ LookupFailedWithMessage(k) => batch_result.details[k].status = "error"
              /\ batch_result.details[k].status = "error" => LookupFailedWithMessage(k)

\* two citations were looked up, one failed with a message, one was not found
FailedLookupWithMessageWitness ==
    /\ BatchRan
    /\ batch_result.total = 2
    /\ batch_result.errors = 1
    /\ batch_result.not_found = 1

-----------------------------------------------------------------------------
(* The revision score and the low-revision flags of compare_drafts *)

Compared == pc = "compare_drafts"

BothDraftsGiven == Truthy(draft1) /\ Truthy(draft2)

\* the sentences that are in one draft and not in the other, and all of them
ChangedSentences ==
    (SentenceSet(draft1) \cup SentenceSet(draft2)) \ (SentenceSet(draft1) \cap SentenceSet(draft2))

AllSentences == SentenceSet(draft1) \cup SentenceSet(draft2)

\* 30, 20 or 10 points for a sentence-change ratio of at least 0.3, 0.15, 0.05
SentencePoints ==
    IF AllSentences = {} THEN 0
    ELSE IF 100 * Cardinality(ChangedSentences) >= 30 * Cardinality(AllSentences) THEN 30
    ELSE IF 100 * Cardinality(ChangedSentences) >= 15 * Cardinality(AllSentences) THEN 20
    ELSE IF 100 * Cardinality(ChangedSentences) >= 5 * Cardinality(AllSentences) THEN 10
    ELSE 0

\* 10 points when the number of paragraphs changed
ParagraphPoints ==
    IF Len(StripNonEmpty(SplitOn(draft1, "\n\n"))) # Len(StripNonEmpty(SplitOn(draft2, "\n\n")))
    THEN 10 ELSE 0

\* the words of draft 2, longer than four characters, that draft 1 does not have
NewLongWords == {w \in SplitSet(draft2) \ SplitSet(draft1) : Len(w) > 4}

\* 20 or 10 points for at least 20 or 10 new long words
VocabularyPoints ==
    IF Cardinality(NewLongWords) >= 20 THEN 20
    ELSE IF Cardinality(NewLongWords) >= 10 THEN 10
    ELSE 0

\* C22: the revision_score of compare_drafts is always in 0..100; it is built
\* only from the sentence-change ratio (0, 10, 20 or 30 points), a changed
\* paragraph count (10 points) and the new words longer than 4 characters (0,
\* 10 or 20 points), and it is 0 when either draft is empty.
RevisionScoreComposed ==
    Compared =>
        /\ comparison.revision_score \in 0..100
        /\ ~BothDraftsGiven => comparison.revision_score = 0
        /\ comparison.revision_score # 0 =>
              comparison.revision_score = SentencePoints + ParagraphPoints + VocabularyPoints
        /\ (BothDraftsGiven /\ comparison.flags # <<NO_REVISION_FLAG>>) =>
              comparison.revision_score = SentencePoints + ParagraphPoints + VocabularyPoints

\* all three parts count: 30 + 10 + 20
RevisionScoreComposedWitness ==
    /\ Compared
    /\ SentencePoints = 30 /\ ParagraphPoints = 10 /\ VocabularyPoints = 20
    /\ comparison.revision_score = 60

\* the flags of the comparison that equal a text
ComparisonHas(flag) == \E k \in 1..Len(comparison.flags) : comparison.flags[k] = flag

\* the three clauses of C23 about one comparison
SimilarityFlags ==
    LET sim == calculate_text_similarity(draft1, draft2)
    IN /\ RatGE(sim, Rat(98, 100)) => ComparisonHas(NO_REVISION_FLAG)
       /\ (RatGE(sim, Rat(95, 100)) /\ ~RatGE(sim, Rat(98, 100)))
             => ComparisonHas(MINIMAL_REVISION_FLAG)
       /\ ~(ComparisonHas(NO_REVISION_FLAG) /\ ComparisonHas(MINIMAL_REVISION_FLAG))
       /\ comparison.revision_score < 20
             => (ComparisonHas("Insufficient revision between drafts")
                 \/ ComparisonHas(NO_REVISION_FLAG))

\* C23 as stated: similarity >= 0.98 gives the critical no-revision flag,
\* 0.95 <= similarity < 0.98 the minimal-revision flag, never both; whenever
\* the returned revision_score is below 20 the result carries a low-revision
\* flag ("Insufficient revision between drafts" or the critical flag).
LowScoreAlwaysFlagged == Compared => SimilarityFlags

\* C23 amended: the same for two non-empty drafts; when a draft is empty or
\* None the score is 0 and there is no flag at all.
LowScoreFlaggedWhenBothGiven ==
    Compared =>
        /\ BothDraftsGiven => SimilarityFlags
        /\ ~BothDraftsGiven => comparison.revision_score = 0 /\ comparison.flags = <<>>

\* 20 of 21 words shared (similarity 0.952): the minimal-revision flag and,
\* with one sentence of 21 changed, a score below 20 with its flag
LowScoreFlaggedWhenBothGivenWitness ==
    /\ Compared
    /\ BothDraftsGiven
    /\ RatGE(calculate_text_similarity(draft1, draft2), Rat(95, 100))
    /\ ~RatGE(calculate_text_similarity(draft1, draft2), Rat(98, 100))
    /\ comparison.revision_score < 20
    /\ ComparisonHas(MINIMAL_REVISION_FLAG)
    /\ ComparisonHas("Insufficient revision between drafts")

-----------------------------------------------------------------------------
(* The repetitive-reasoning check                                          *)

\* the sentences of a text that are longer than 20 characters, by position
LongSentences(text) ==
    {r \in Runs(text, SentenceEnd) : Len(Strip(SubSeq(text, r[1], r[2]))) > 20}

\* the ordered pairs of different long sentences, and those of them whose
\* similarity is above 0.7; each unordered pair is counted twice in both
AllPairs(text) == {q \in LongSentences(text) \X LongSentences(text) : q[1] # q[2]}

AlikePairs(text) ==
    {q \in AllPairs(text) :
        RatGT(calculate_text_similarity(Lower(Strip(SubSeq(text, q[1][1], q[1][2]))),
                                        Lower(Strip(SubSeq(text, q[2][1], q[2][2])))),
              Rat(7, 10))}

\* at least five long sentences, and more than 20% of their pairs alike
Repetitive(text) ==
    /\ Truthy(text)
    /\ Cardinality(LongSentences(text)) >= 5
    /\ 5 * Cardinality(AlikePairs(text)) > Cardinality(AllPairs(text))

\* the long sentences and their pairs over the bodies of the model, evaluated once
RepetitionMemo ==
    [body \in AnalysedBodies |->
        [repetitive |-> Repetitive(body),
         long |-> Cardinality(LongSentences(body)),
         alike |-> Cardinality(AlikePairs(body))]]

\* C24: check_repetitive_reasoning is False for a text with fewer than 5
\* sentences longer than 20 characters, and otherwise True if and only if
\* strictly more than 20% of the sentence pairs have similarity strictly
\* above 0.7; analyze_submission appends the repetitive-reasoning flag on that
\* result under every profile, whatever checks_enabled says.
RepetitiveAlwaysChecked ==
    (pc = "analyze_submission" /\ raised = None /\ Body \in AnalysedBodies) =>
        /\ FlagsWith(flags, "Repetitive/circular reasoning detected") # {}
              <=> RepetitionMemo[Body].repetitive
        /\ RepetitionMemo[Body].long < 5
              => FlagsWith(flags, "Repetitive/circular reasoning detected") = {}

\* three of the ten pairs of five long sentences are alike, and the flag is
\* there under a profile that switches the formal checks off
RepetitiveAlwaysCheckedWitness ==
    /\ pc = "analyze_submission"
    /\ raised = None
    /\ CURRENT_PROFILE = "rough_draft"
    /\ Body \in AnalysedBodies
    /\ RepetitionMemo[Body].long = 5
    /\ RepetitionMemo[Body].alike = 6
    /\ FlagsWith(flags, "Repetitive/circular reasoning detected") # {}

\* two of the ten pairs of five long sentences are alike: exactly 20%, no flag
RepetitiveAtTwentyPercent ==
    /\ pc = "analyze_submission"
    /\ raised = None
    /\ Body \in AnalysedBodies
    /\ RepetitionMemo[Body].long = 5
    /\ RepetitionMemo[Body].alike = 4
    /\ FlagsWith(flags, "Repetitive/circular reasoning detected") = {}

-----------------------------------------------------------------------------
(* The divisions of the analysis core                                      *)

\* a slip that averages the lengths before it counts the paragraphs
UniformityDivisors_unguarded(text) ==
    IF ~Truthy(text) THEN {}
    ELSE LET paragraphs == StripNonEmpty(SplitOn(text, "\n\n"))
             lengths == [k \in 1..Len(paragraphs) |-> SplitLen(paragraphs[k])]
         IN {Len(lengths)} \cup (IF SumSeq(lengths) = 0 THEN {} ELSE {SumSeq(lengths)})

\* check_paragraph_uniformity divides by len(lengths) twice and by
\* avg_length, which is zero exactly when the lengths add up to zero
UniformityDivisors(text) ==
    IF ~Truthy(text) THEN {}
    ELSE LET paragraphs == StripNonEmpty(SplitOn(text, "\n\n"))
             lengths == [k \in 1..Len(paragraphs) |-> SplitLen(paragraphs[k])]
         IN IF Len(paragraphs) < 3 THEN {}
            ELSE {Len(lengths)}
                 \cup (IF SumSeq(lengths) = 0 THEN {} ELSE {SumSeq(lengths)})

\* check_sentence_completeness divides by len(sentences)
CompletenessDivisors(text) ==
    IF ~Truthy(text) THEN {}
    ELSE IF SentenceRuns(text) = {} THEN {}
    ELSE {Cardinality(SentenceRuns(text))}

\* check_repetitive_reasoning divides by total_pairs
RepetitiveDivisors(text) ==
    IF ~Truthy(text) THEN {}
    ELSE LET n == Cardinality({r \in Runs(text, SentenceEnd) :
                                  Len(Strip(SubSeq(text, r[1], r[2]))) > 20})
         IN IF n < 5 THEN {}
            ELSE IF (n * (n - 1)) \div 2 > 0 THEN {(n * (n - 1)) \div 2} ELSE {}

\* 7. of analyze_submission divides passive_count by total_sentences when
\* total_sentences > 5
PassiveDivisors(body) ==
    IF SentenceSplitLen(body) > 5 THEN {SentenceSplitLen(body)} ELSE {}

\* compare_drafts divides by len(words1), by total_sentences and by len(paras1)
CompareDivisors(d1, d2) ==
    IF ~Truthy(d1) \/ ~Truthy(d2) THEN {}
    ELSE LET sim == calculate_text_similarity(d1, d2)
             total_sentences == Cardinality(SentenceSet(d1) \cup SentenceSet(d2))
             paras1 == StripNonEmpty(SplitOn(d1, "\n\n"))
             paras2 == StripNonEmpty(SplitOn(d2, "\n\n"))
         IN (IF SplitLen(d1) # 0 THEN {SplitLen(d1)} ELSE {})
            \cup (IF RatGE(sim, Rat(98, 100)) THEN {}
                  ELSE (IF total_sentences > 0 THEN {total_sentences} ELSE {})
                       \cup (IF RatGT(Rat(1, 2), sim) /\ Len(paras1) = Len(paras2)
                             THEN {Len(paras1)} ELSE {}))

\* texts without words, without sentences or without paragraphs, and texts
\* with three paragraphs and with more than five sentences
PunctuationTexts ==
    {".", "...", ". . .", "!?", "\n\n", "\n\n\n\n", " \n\n \n\n ", ".\n\n.\n\n.",
     "a\n\nb\n\nc", "a. b. c. d. e. f.", "? ? ? ? ? ? ?"}

EdgeTexts == TextArgs \cup PunctuationTexts \cup StructuredBodies

EdgeDrafts == {None, "", " ", "\n", ".", "\n\n", "a", "a b", "b\n\na", "a. b. c. d. e. f."}

InitNumeric ==
    /\ pc = "start"
    /\ CURRENT_PROFILE = None
    /\ SimIdle
    /\ ProfileIdle
    /\ AnalysisIdle
    /\ DraftIdle
    /\ CrossIdle
    /\ ReportIdle
    /\ GradeIdle
    /\ BiblioIdle
    /\ edge_text1 \in EdgeTexts
    /\ edge_text2 \in EdgeDrafts
    /\ divisors = {}
    /\ edge_value = None
    /\ PollIdle

NumericFrame ==
    UNCHANGED <<CURRENT_PROFILE, simVars, profileVars, analysisVars, draftVars, crossVars,
                reportVars, gradeVars, biblioVars, edge_text1, edge_text2, pollVars>>

CallParagraphUniformity ==
    /\ pc = "start"
    /\ edge_value' = check_paragraph_uniformity(edge_text1)
    /\ divisors' = UniformityDivisors(edge_text1)
    /\ pc' = "check_paragraph_uniformity"
    /\ NumericFrame

CallSentenceCompleteness ==
    /\ pc = "start"
    /\ edge_value' = check_sentence_completeness(edge_text1)
    /\ divisors' = CompletenessDivisors(edge_text1)
    /\ pc' = "check_sentence_completeness"
    /\ NumericFrame

CallRepetitiveReasoning ==
    /\ pc = "start"
    /\ edge_value' = check_repetitive_reasoning(edge_text1)
    /\ divisors' = RepetitiveDivisors(edge_text1)
    /\ pc' = "check_repetitive_reasoning"
    /\ NumericFrame

\* the passive-voice step of analyze_submission, which runs for a non-empty body
PassiveVoiceStep ==
    /\ pc = "start"
    /\ Truthy(edge_text1)
    /\ \E passive_count \in {0, 20} :
          edge_value' = PassiveFlags(edge_text1,
                                     [total_sentences |-> SentenceSplitLen(edge_text1)],
                                     [passive_count |-> passive_count])
    /\ divisors' = PassiveDivisors(edge_text1)
    /\ pc' = "passive_voice"
    /\ NumericFrame

CallCompareDraftsOnEdge ==
    /\ pc = "start"
    /\ edge_value' = compare_drafts(edge_text1, edge_text2)
    /\ divisors' = CompareDivisors(edge_text1, edge_text2)
    /\ pc' = "compare_drafts"
    /\ NumericFrame

NextNumeric ==
    \/ CallParagraphUniformity
    \/ CallSentenceCompleteness
    \/ CallRepetitiveReasoning
    \/ PassiveVoiceStep
    \/ CallCompareDraftsOnEdge

SpecNumeric == InitNumeric /\ [][NextNumeric]_vars

\* a text without words
NoWords(text) == Truthy(text) /\ SplitLen(text) = 0

\* C25: no division by zero is reachable in the analysis core: for every
\* text, also one of whitespace or punctuation only with zero words, zero
\* sentences or zero paragraphs, check_paragraph_uniformity,
\* check_sentence_completeness, check_repetitive_reasoning, the passive-voice
\* ratio of analyze_submission and compare_drafts (word-change percent,
\* sentence-change ratio, paragraph-structure ratio) give a neutral value
\* instead of dividing by zero.
NoDivisionByZero ==
    /\ 0 \notin divisors
    /\ (pc = "check_paragraph_uniformity" /\ Truthy(edge_text1)
          /\ Len(StripNonEmpty(SplitOn(edge_text1, "\n\n"))) < 3)
          => edge_value = ZeroUniformity
    /\ (pc = "check_sentence_completeness" /\ Truthy(edge_text1)
          /\ SentenceRuns(edge_text1) = {})
          => edge_value = Rat(0, 1)
    /\ (pc = "check_repetitive_reasoning" /\ Truthy(edge_text1)
          /\ LongSentences(edge_text1) = {})
          => edge_value = FALSE
    /\ (pc = "passive_voice" /\ SentenceSplitLen(edge_text1) <= 5)
          => edge_value = <<>>
    /\ (pc = "compare_drafts" /\ NoWords(edge_text1) /\ Truthy(edge_text2)
          /\ edge_value.flags # <<NO_REVISION_FLAG>>)
          => /\ edge_value.details.word_change_percent = Rat(0, 1)
             /\ Len(StripNonEmpty(SplitOn(edge_text2, "\n\n"))) > 0
    /\ (pc = "compare_drafts" /\ Truthy(edge_text1) /\ Truthy(edge_text2)
          /\ edge_value.flags # <<NO_REVISION_FLAG>>
          /\ SentenceSet(edge_text1) \cup SentenceSet(edge_text2) = {})
          => edge_value.details.sentence_change_ratio = Rat(0, 1)

\* a first draft of blanks compared with a draft of words: no word-change
\* division, and the comparison is made
NoDivisionByZeroWitness ==
    /\ pc = "compare_drafts"
    /\ NoWords(edge_text1)
    /\ Truthy(edge_text2) /\ SplitLen(edge_text2) > 0
    /\ edge_value.revision_score = 40
    /\ divisors = {1}

-----------------------------------------------------------------------------
(* The frame of an analysis                                                *)

\* C27: the current profile is set once before the batch and read-only
\* thereafter: no analysis, and none of the calls of is_check_enabled,
\* get_threshold, get_profile and the check functions it makes, changes
\* CURRENT_PROFILE (ASSIGNMENT_PROFILES is a constant of the model, as no
\* statement of the source assigns to it or to a profile), and
\* analyze_submission leaves the submission and the sibling pool as they were:
\* after any sequence of analyses the profile is the one selected before the
\* first.
ProfileReadOnly ==
    [][/\ pc # "start" => CURRENT_PROFILE' = CURRENT_PROFILE
       /\ all_submissions' = all_submissions
       /\ pc' = "analyze_submission" =>
             \E k \in 1..Len(all_submissions) : submission' = all_submissions[k]
       /\ pc = "analyze_submission" => pc' = "analyze_submission"]_vars

\* analyses that drew flags under a profile that was selected
ProfileReadOnlyWitness ==
    /\ pc = "analyze_submission"
    /\ CURRENT_PROFILE = "personal_reflection"
    /\ raised = None
    /\ flags # <<>>

-----------------------------------------------------------------------------
(* Similar posts in a discussion                                           *)

\* the user ids of the enrolled students who posted, in topic k, a message
\* that a different enrolled student posted too
CopiedPosters(k) ==
    LET all_posts == flatten_posts(fetch_discussion_entries(discussion_topics[k]))
        enrolled == StudentUserIds(ReportStudents)
        Author(i) == DictGet(all_posts[i], "user_id", None)
        Message(i) == DictGet(all_posts[i], "message", "")
    IN {Author(i) : i \in {i \in 1..Len(all_posts) :
           /\ Author(i) \in enrolled
           /\ Truthy(Message(i))
           /\ \E j \in 1..Len(all_posts) :
                 /\ Author(j) \in enrolled
                 /\ Author(j) # Author(i)
                 /\ Message(j) = Message(i)}}

\* the flags topic k's analysis holds for a student
PostFlags(k, user_id) ==
    GetItem(GetItem(discussion_data, discussion_topics[k].id, [flags |-> <<>>]).flags,
            user_id, <<>>)

\* C28: the cross-submission similarity step applies to discussion posts:
\* when two different enrolled students posted identical messages in a topic,
\* each of the two receives a "Highly similar" flag.
IdenticalPostsFlagged ==
    (pc \in {"discussions", "generate_report"} /\ is_check_enabled("cross_submission")) =>
        \A k \in 1..Len(discussion_topics) :
            \A user_id \in CopiedPosters(k) :
                FlagsWith(PostFlags(k, user_id), "Highly similar") # {}

\* what the code does: no analysis of a discussion holds a similarity flag
NoPostFlaggedSimilar ==
    pc \in {"discussions", "generate_report"} =>
        \A k \in 1..Len(discussion_topics) :
            \A u \in 1..5 :
                FlagsWith(PostFlags(k, UserId(u)), "Highly similar") = {}

-----------------------------------------------------------------------------
(* The gate of the uniform-paragraph flag                                  *)

\* the word counts of the blank-line-separated paragraphs of a text
ParagraphLengths(text) ==
    LET paragraphs == StripNonEmpty(SplitOn(text, "\n\n"))
    IN [k \in 1..Len(paragraphs) |-> SplitLen(paragraphs[k])]

\* at least three paragraphs whose lengths have a coefficient of variation
\* below 0.2: n * sum of squares - (sum squared) is n squared times the
\* variance, so the test is 25 * variance < mean squared
UniformAbove80(text) ==
    LET lengths == ParagraphLengths(text)
        n == Len(lengths)
        total == SumSeq(lengths)
        squares == SumSeq([k \in 1..n |-> lengths[k] * lengths[k]])
    IN n >= 3 /\ total > 0 /\ 25 * (n * squares - total * total) < total * total

\* the paragraphs of the bodies of the model, evaluated once
ParagraphMemo ==
    [body \in AnalysedBodies |->
        [above |-> Truthy(body) /\ UniformAbove80(body),
         paragraphs |-> Len(ParagraphLengths(body)),
         score_zero |-> check_paragraph_uniformity(body) = ZeroUniformity]]

\* the current profile switches the "complete_sentences" check off
CompleteSentencesOff ==
    /\ CURRENT_PROFILE # None
    /\ DictGet(DictGet(get_profile(CURRENT_PROFILE), "checks_enabled", EmptyDict),
               "complete_sentences", TRUE) = FALSE

UniformBodyUnderRoughDraft ==
    /\ pc = "analyze_submission"
    /\ raised = None
    /\ CURRENT_PROFILE = "rough_draft"
    /\ Body \in AnalysedBodies
    /\ ParagraphMemo[Body].above

-----------------------------------------------------------------------------
(* The grade posting and the progress-polling loop of grade_assignment     *)

MaxPolls == 3

NotJson == "<not JSON>"
JsonList == "<list>"
JsonObject == "<object>"

\* dict.get(key, default) on the body of a response
BodyGet(value, default) == IF value = Missing THEN default ELSE value

\* what follows the response to the posted grades: the caller gets the
\* exception of requests.post ("raise"), the flagged list ("return"), or the
\* polling loop starts ("poll")
PostStep(response) ==
    IF response.raises THEN "raise"
    ELSE IF response.status_code \notin {200, 201} THEN "return"
    ELSE IF response.body # JsonObject THEN "return"
    ELSE IF ~Truthy(BodyGet(response.id, None)) THEN "return"
    ELSE "poll"

\* a slip that polls on after a job failed
PollStep_failed_polls_on(prog_resp) ==
    IF prog_resp.raises THEN "raise"
    ELSE IF prog_resp.status_code # 200 THEN "break"
    ELSE IF prog_resp.body # JsonObject THEN "break"
    ELSE IF BodyGet(prog_resp.workflow_state, "unknown") = "completed" THEN "break"
    ELSE "sleep"

\* one pass of the polling loop: the caller gets the exception of
\* requests.get ("raise"), the loop is left ("break"), or it sleeps and polls
\* again ("sleep")
PollStep(prog_resp) ==
    IF prog_resp.raises THEN "raise"
    ELSE IF prog_resp.status_code # 200 THEN "break"
    ELSE IF prog_resp.body # JsonObject THEN "break"
    ELSE LET state == BodyGet(prog_resp.workflow_state, "unknown")
         IN IF state = "completed" THEN "break"
            ELSE IF state = "failed" THEN "break"
            ELSE "sleep"

\* the workflow states of a Canvas progress object
JobStates == {"queued", "running", "completed", "failed"}
JobDone == {"completed", "failed"}

\* what Canvas may answer to the posted grades
PostResponses ==
    {Response(TRUE, 0, None, Missing, Missing),
     Response(FALSE, 500, NotJson, Missing, Missing),
     Response(FALSE, 200, NotJson, Missing, Missing),
     Response(FALSE, 200, JsonList, Missing, Missing),
     Response(FALSE, 200, JsonObject, Missing, Missing),
     Response(FALSE, 200, JsonObject, None, Missing),
     Response(FALSE, 200, JsonObject, "7", "queued"),
     Response(FALSE, 201, JsonObject, "7", "queued")}

\* what a poll may be answered with while the job is in a state: the request
\* fails, Canvas answers with an error status, with a body that is no
\* progress object, or with the progress object of the job, which may lack
\* the workflow state while the job is queued
PollResponses(state) ==
    {Response(TRUE, 0, None, Missing, Missing),
     Response(FALSE, 500, NotJson, Missing, Missing),
     Response(FALSE, 200, NotJson, Missing, Missing),
     Response(FALSE, 200, JsonList, Missing, Missing),
     Response(FALSE, 200, JsonObject, "7", state)}
    \cup (IF state = "queued"
          THEN {Response(FALSE, 200, JsonObject, "7", Missing),
                Response(FALSE, 200, JsonObject, "7", None)}
          ELSE {})

\* the students of the course have all handed in a short text or an annotation
InitPoll ==
    /\ pc = "start"
    /\ CURRENT_PROFILE = None
    /\ SimIdle
    /\ ProfileIdle
    /\ AnalysisIdle
    /\ DraftIdle
    /\ CrossIdle
    /\ ReportIdle
    /\ \E n \in 0..MaxStudents :
          /\ enrollments = [k \in 1..n |-> [user_id |-> UserId(k)]]
          /\ \E content \in [1..n -> {2, 3}] :
                LET data == FetchedList(n, [k \in 1..n |-> TRUE], [k \in 1..n |-> 1],
                                        [k \in 1..n |-> 2], content)
                IN fetched_submissions = SubmissionsByUser(data, Len(data))
    /\ regrade_mode = FALSE
    /\ grade_data = <<>>
    /\ flagged_submissions = <<>>
    /\ BiblioIdle
    /\ NumericIdle
    /\ PollIdle

\* grade_assignment up to the test of grade_data: the loop over the
\* enrollments, then the return when there is nobody to grade
BuildGradeData ==
    /\ pc = "mode"
    /\ \E min_word_count \in {1, 50} :
          LET graded == grade_assignment(enrollments, Len(enrollments), fetched_submissions,
                                         min_word_count, regrade_mode)
          IN /\ grade_data' = graded.grade_data
             /\ flagged_submissions' = graded.flagged_submissions
             /\ pc' = IF graded.grade_data = <<>> THEN "return" ELSE "post"
    /\ UNCHANGED <<CURRENT_PROFILE, simVars, profileVars, analysisVars, draftVars, crossVars,
                   reportVars, enrollments, fetched_submissions, regrade_mode, biblioVars,
                   numericVars, pollVars>>

\* response = requests.post(url, headers=HEADERS, json=payload), and what
\* follows it up to the start of the polling loop
PostGrades ==
    /\ pc = "post"
    /\ \E response \in PostResponses :
          /\ poll_reply' = response
          /\ pc' = CASE PostStep(response) = "raise" -> "raised"
                     [] PostStep(response) = "return" -> "return"
                     [] PostStep(response) = "poll" -> "poll"
          /\ job_state' = IF PostStep(response) = "poll" THEN "queued" ELSE job_state
    /\ UNCHANGED <<CURRENT_PROFILE, simVars, profileVars, analysisVars, draftVars, crossVars,
                   reportVars, gradeVars, biblioVars, numericVars, polls>>

\* one pass of `while True`: the loop sleeps and polls again (the sleeps are
\* counted up to MaxPolls and from 1 again, so that a loop that never ends is
\* a cycle of different states), or it is left for the return of
\* flagged_submissions, or requests.get raises
PollProgress ==
    /\ pc = "poll"
    /\ \E prog_resp \in PollResponses(job_state) :
          /\ poll_reply' = prog_resp
          /\ polls' = IF PollStep(prog_resp) # "sleep" THEN polls
                      ELSE IF polls < MaxPolls THEN polls + 1 ELSE 1
          /\ pc' = CASE PollStep(prog_resp) = "raise" -> "raised"
                     [] PollStep(prog_resp) = "break" -> "return"
                     [] PollStep(prog_resp) = "sleep" -> "poll"
    /\ UNCHANGED <<CURRENT_PROFILE, simVars, profileVars, analysisVars, draftVars, crossVars,
                   reportVars, gradeVars, biblioVars, numericVars, job_state>>

\* Canvas works on the job while grade_assignment polls
JobAdvances ==
    /\ pc = "poll"
    /\ \/ job_state = "queued" /\ job_state' \in {"running", "failed"}
       \/ job_state = "running" /\ job_state' \in {"completed", "failed"}
    /\ UNCHANGED <<pc, CURRENT_PROFILE, simVars, profileVars, analysisVars, draftVars,
                   crossVars, reportVars, gradeVars, biblioVars, numericVars, polls,
                   poll_reply>>

NextPoll == ChooseMode \/ BuildGradeData \/ PostGrades \/ PollProgress \/ JobAdvances

SpecPoll == InitPoll /\ [][NextPoll]_vars

\* the loop is sequential code: a pass that can run does run
SpecPollFair == SpecPoll /\ WF_vars(PollProgress)

\* the last poll was answered with a progress object in the state given
Reported(state) ==
    /\ ~poll_reply.raises
    /\ poll_reply.status_code = 200
    /\ poll_reply.body = JsonObject
    /\ BodyGet(poll_reply.workflow_state, "unknown") = state

\* the loop polls again, after a delay, exactly for the progress objects in a
\* state other than "completed" and "failed", and it is left for the return
\* of the unchanged flagged list when a poll reports one of these two, has a
\* status other than 200 or cannot be read
PollsUntilDone ==
    [][(pc = "poll" /\ job_state' = job_state) =>
          /\ pc' = "poll" <=> /\ ~poll_reply'.raises
                               /\ poll_reply'.status_code = 200
                               /\ poll_reply'.body = JsonObject
                               /\ poll_reply'.workflow_state \notin JobDone
          /\ ~poll_reply'.raises /\ pc' # "poll" => pc' = "return"
          /\ poll_reply'.raises => pc' = "raised"
          /\ flagged_submissions' = flagged_submissions]_vars

\* C30: once the grading job has reached "completed" or "failed",
\* grade_assignment, polling it, eventually returns the flagged list.
JobDoneLeadsToReturn ==
    (pc = "poll" /\ job_state \in JobDone) ~> (pc = "return")

\* once the job has reached "completed" or "failed", grade_assignment
\* eventually returns the flagged list or raises the exception of the poll
JobDoneLeadsToReturnOrRaise ==
    (pc = "poll" /\ job_state \in JobDone) ~>
        (pc = "return" \/ (pc = "raised" /\ poll_reply.raises))

\* the job completed, was polled at least twice before, and grade_assignment
\* left with the exception of requests.get
RaisedAfterCompletion ==
    /\ pc = "raised"
    /\ job_state = "completed"
    /\ polls >= 2
    /\ flagged_submissions # <<>>

\* grade_assignment returned its flagged list after the job failed
ReturnedAfterFailure ==
    /\ pc = "return"
    /\ job_state = "failed"
    /\ Reported("failed")
    /\ flagged_submissions # <<>>

====
